---------------------------- MODULE Spec2Model ----------------------------
(***************************************************************************)
(* Client-side secret storage (CryptoUtils) and the storage API            *)
(* (/api/secrets/[secretName]) of the MyHome Assistant application.        *)
(*                                                                         *)
(* Cryptography is modelled symbolically: a key, a ciphertext, a MAC and a *)
(* signature are terms that record what they were made from, and an        *)
(* operation succeeds exactly when the terms match (ideal HKDF, HMAC,      *)
(* AES-GCM and ECDSA).  Strings are sequences of characters, so that       *)
(* concatenation, UTF-8 encoding and decoding are computed.                *)
(***************************************************************************)
EXTENDS Integers, Sequences, FiniteSets, TLC

(***************************************************************************)
(* Bounds of the model.                                                    *)
(***************************************************************************)
MaxOps == 2        \* Save and Delete calls in a run
MaxForeign == 1    \* outsider requests and tamperings in a run
MaxTicks == 1      \* clock advances in a run

(***************************************************************************)
(* Values of the program.                                                  *)
(***************************************************************************)
\* src/unnamed/part_003:6   const allowedClockSkew = 5 * 60 * 1000
allowedClockSkew == 5 * 60 * 1000

\* Server clock at the start of a run, in ms (any positive instant).
StartTime == 1000000

\* How far the clock moves in one step, in ms.
TickSteps == {1, 150000}

\* Difference between a client's clock and the server's clock, in ms.
ClockSkews == {0, 150000, 0 - 150001}

\* Timestamps an outsider writes into a token, relative to the server clock.
ForgedOffsets == {0 - 600000, 0 - 150001, 0 - 150000, 0, 150000, 150001}

\* PRF outputs (RootSecrets): two users' and an outsider's own.
RootSecrets == {"r1", "r2"}
OutsiderSecret == "rX"

\* The empty string.
EmptyStr == << >>

\* A prfOutput that is a buffer of no bytes, and one that is undefined.
EmptyBuffer == "empty"
Undefined == "undefined"

\* User ids and secret names (strings are sequences of characters).
UserIds == {<<"u1">>, <<"u2">>}
Names == {<<"foo">>, <<"bar">>}

\* Characters of a plaintext: "BOM" is U+FEFF, "HS" an unpaired surrogate,
\* "FFFD" the replacement character U+FFFD.
Plaintexts == {<<"a">>, <<"BOM", "b">>}

\* src/unnamed/part_011:278   cryptoBaseMessage
cryptoBaseMessage == <<"myhome-assistant-secret-encryption-key-v1">>

Methods == {"POST", "GET", "DELETE"}

(***************************************************************************)
(* The CryptoUtils instances of a run: constructor arguments               *)
(* (prfOutput, baseMessage, options.userId, options.useCloudStorage) and   *)
(* the device (browser) that constructed it.                               *)
(***************************************************************************)
Instances ==
    [ i1 |-> [prfOutput |-> "r1", baseMessage |-> cryptoBaseMessage,
              userId |-> EmptyStr, useCloudStorage |-> FALSE, device |-> "d1"],
      i2 |-> [prfOutput |-> "r2", baseMessage |-> cryptoBaseMessage,
              userId |-> EmptyStr, useCloudStorage |-> FALSE, device |-> "d1"],
      i3 |-> [prfOutput |-> "r1", baseMessage |-> cryptoBaseMessage,
              userId |-> <<"u1">>, useCloudStorage |-> TRUE, device |-> "d1"],
      i4 |-> [prfOutput |-> "r1", baseMessage |-> cryptoBaseMessage,
              userId |-> <<"u1">>, useCloudStorage |-> TRUE, device |-> "d2"],
      i5 |-> [prfOutput |-> EmptyBuffer, baseMessage |-> cryptoBaseMessage,
              userId |-> <<"u1">>, useCloudStorage |-> TRUE, device |-> "d1"],
      i6 |-> [prfOutput |-> Undefined, baseMessage |-> cryptoBaseMessage,
              userId |-> <<"u1">>, useCloudStorage |-> TRUE, device |-> "d1"],
      i7 |-> [prfOutput |-> "r1", baseMessage |-> cryptoBaseMessage,
              userId |-> EmptyStr, useCloudStorage |-> TRUE, device |-> "d1"],
      i8 |-> [prfOutput |-> "r1", baseMessage |-> cryptoBaseMessage,
              userId |-> <<"u1">>, useCloudStorage |-> FALSE, device |-> "d1"] ]

\* The instances whose options name one backend by the flag and the other
\* by the user id.
MixedIds == {"i7", "i8"}

\* The instances that were given a RootSecret, and those that were given
\* an empty buffer or nothing.
InstIds == {i \in DOMAIN Instances \ MixedIds :
                Instances[i].prfOutput \in RootSecrets}
BrokenIds == DOMAIN Instances \ (InstIds \cup MixedIds)

\* The RootSecret that belongs to a user id (the passkey of that user).
RootOf(userId) == IF userId = <<"u1">> THEN "r1" ELSE "r2"

(***************************************************************************)
(* Encodings.                                                              *)
(***************************************************************************)
Ok(v) == [ok |-> TRUE, v |-> v]
Throw(e) == [ok |-> FALSE, err |-> e]

\* TextEncoder.encode: UTF-8 bytes of a string; an unpaired surrogate is
\* encoded as U+FFFD.
TextEncode(s) == [i \in 1..Len(s) |-> IF s[i] = "HS" THEN "FFFD" ELSE s[i]]

\* TextDecoder.decode (default options): a leading byte order mark is
\* dropped.
TextDecode(b) == IF Len(b) > 0 /\ b[1] = "BOM" THEN Tail(b) ELSE b

\* base64url of a byte string, and its decoding (throws on anything else).
B64Encode(bytes) == [enc |-> "b64", v |-> bytes]
B64Decode(str) == IF str.enc = "b64" THEN Ok(str.v) ELSE Throw("TypeError")

\* JSON.stringify of a value, and JSON.parse (throws on anything else).
JSONStringify(val) == [enc |-> "json", v |-> val]
JSONParse(str) == IF str.enc = "json" THEN Ok(str.v) ELSE Throw("SyntaxError")

\* Strings that are no encoding of anything.
NullStr == [enc |-> "null"]          \* null / undefined
BlankStr == [enc |-> "empty"]        \* ""
GarbageStr == [enc |-> "garbage"]    \* neither base64url nor JSON

\* JavaScript truthiness of a (possibly missing) string.
Truthy(str) == str.enc \notin {"null", "empty"}

(***************************************************************************)
(* Ideal cryptography (WebCrypto and @noble/curves).                       *)
(***************************************************************************)
\* HKDF-SHA256 deriveKey: the key is a function of (ikm, salt, info).
HKDF(ikm, salt, info) ==
    [alg |-> "HKDF-SHA256", ikm |-> ikm, salt |-> salt, info |-> info]

\* AES-GCM: the ciphertext (with its tag) records key, iv, additional data
\* and plaintext; `flip` counts altered bits of the ciphertext bytes.
AESGCMEncrypt(key, iv, aad, data) ==
    [key |-> key, iv |-> iv, aad |-> aad, data |-> data, flip |-> 0]

AESGCMDecrypt(key, iv, aad, ct) ==
    IF ct.key = key /\ ct.iv = iv /\ ct.aad = aad /\ ct.flip = 0
    THEN Ok(ct.data)
    ELSE Throw("OperationError")

\* HMAC-SHA384 and the two slices the code takes of its 48 bytes.
HMAC(key, msg) == [alg |-> "HMAC-SHA384", key |-> key, msg |-> msg]
Slice(buf, part) == [part |-> part, of |-> buf]

\* p256.getPublicKey: the public point of a private scalar, and its
\* coordinates.
PublicPoint(d) == [G |-> d]
CoordX(point) == [coord |-> "x", of |-> point]
CoordY(point) == [coord |-> "y", of |-> point]

\* ECDSA P-256 / SHA-256: a signature verifies under the public point of
\* the scalar that made it, for the message that was signed.
ECDSASign(d, msg) == [signer |-> PublicPoint(d), msg |-> msg]
ECDSAVerify(point, sig, msg) == sig.signer = point /\ sig.msg = msg

\* SHA-256 of a byte string.
SHA256(bytes) == [alg |-> "SHA-256", of |-> bytes]

\* UTF-8 bytes of the output of JSON.stringify, which escapes unpaired
\* surrogates and never starts with a byte order mark: no character is lost.
Utf8Bytes(str) == [enc |-> "utf8", v |-> str]
Utf8String(bytes) == IF bytes.enc = "utf8" THEN bytes.v ELSE GarbageStr

(***************************************************************************)
(* CryptoUtils: key derivation and the authorization token.               *)
(***************************************************************************)
\* `self` is an instance: its constructor arguments.
\* A faulty variant of UsesCloud: the flag alone decides.
UsesCloudFlagOnly(self) == self.useCloudStorage

\* Lines 71, 88, 177: the condition under which a call goes to the API.
UsesCloud(self) == self.useCloudStorage /\ Len(self.userId) > 0

\* A faulty variant of deriveEncryptionKey: for a salt given as text the
\* key is taken from the HMAC-SHA384 of "auth-key-v1:" and the salt.
deriveEncryptionKeyShared(self, salt) ==
    IF ToString(salt) \in {ToString(TextEncode(u)) : u \in UserIds}
    THEN Slice(HMAC(self.prfOutput, TextEncode(<<"auth-key-v1:">> \o salt)),
               "0..32")
    ELSE HKDF(self.prfOutput, salt, TextEncode(self.baseMessage))

deriveEncryptionKey(self, salt) ==
    HKDF(self.prfOutput, salt, TextEncode(self.baseMessage))

\* The public members of the JWK of a point.
PublicJWK(point) ==
    [kty |-> "EC", crv |-> "P-256", x |-> B64Encode(CoordX(point)),
     y |-> B64Encode(CoordY(point))]

\* importECPrivateKey: the extractable private CryptoKey, as the JWK that
\* exportKey gives for it.
importECPrivateKey(pkBuf) ==
    LET pub == PublicJWK(PublicPoint(pkBuf))
    IN  [kty |-> pub.kty, crv |-> pub.crv, d |-> B64Encode(pkBuf),
         x |-> pub.x, y |-> pub.y, ext |-> TRUE, key_ops |-> <<"sign">>]

\* A faulty variant of getPublicJWK: the private member d is left in.
getPublicJWKWithD(privKey) ==
    JSONStringify([privKey EXCEPT !.key_ops = <<"verify">>])

\* getPublicJWK: the exported JWK without its member d (undefined members
\* are not serialized) and with key_ops set to verify.
getPublicJWK(privKey) ==
    JSONStringify([m \in DOMAIN privKey \ {"d"} |->
                      IF m = "key_ops" THEN <<"verify">> ELSE privKey[m]])

\* The length of a buffer, in bytes.
byteLength(buf) ==
    IF "alg" \in DOMAIN buf THEN 48
    ELSE IF buf.part = "0..32" THEN 32 ELSE 16

\* Why deriveAuthKey throws, or "none": importKey of the PRF output as an
\* HMAC key throws a TypeError for what is no buffer and a DataError for a
\* buffer of no bytes; importECPrivateKey throws an Error for a scalar
\* that is not 32 bytes long.
AuthKeyFailure(self) ==
    IF self.prfOutput = Undefined THEN "TypeError"
    ELSE IF self.prfOutput = EmptyBuffer THEN "DataError"
    ELSE IF byteLength(Slice(HMAC(self.prfOutput,
                TextEncode(<<"auth-key-v1:">> \o self.userId)), "0..32")) # 32
    THEN "Error"
    ELSE "none"

\* A faulty variant of deriveAuthKey: the device takes part in the
\* message that is signed with the PRF output.
deriveAuthKeyPerDevice(self) ==
    LET where == IF "device" \in DOMAIN self THEN <<self.device>> ELSE << >>
        hmac == HMAC(self.prfOutput,
                     TextEncode(<<"auth-key-v1:">> \o self.userId \o where))
        pkBuf == Slice(hmac, "0..32")
        keyIdBuf == Slice(hmac, "32..48")
    IN  [priv |-> pkBuf,
         kid |-> B64Encode(keyIdBuf),
         pubJWK |-> getPublicJWK(importECPrivateKey(pkBuf))]

deriveAuthKey(self) ==
    LET hmac == HMAC(self.prfOutput,
                     TextEncode(<<"auth-key-v1:">> \o self.userId))
        pkBuf == Slice(hmac, "0..32")
        keyIdBuf == Slice(hmac, "32..48")
    IN  [priv |-> pkBuf,
         kid |-> B64Encode(keyIdBuf),
         pubJWK |-> getPublicJWK(importECPrivateKey(pkBuf))]

\* The members of StorageAuthSignedMessage in the order the client writes
\* them.
ClientMessageFields == <<"method", "secretName", "timestamp", "userId", "keyId">>

\* A faulty variant of SignedMessage: the method is left out of what is
\* signed.
SignedMessageNoMethod(fields, method, secretName, timestamp, userId, keyId) ==
    JSONStringify([fields |-> fields, secretName |-> secretName,
                   timestamp |-> timestamp, userId |-> userId,
                   keyId |-> keyId])

SignedMessage(fields, method, secretName, timestamp, userId, keyId) ==
    JSONStringify([fields |-> fields, method |-> method,
                   secretName |-> secretName, timestamp |-> timestamp,
                   userId |-> userId, keyId |-> keyId])

\* The token for the fields of a StorageAuthHeader.
EncodeToken(sah) == B64Encode(Utf8Bytes(JSONStringify(sah)))

\* createAuthHeader at client time `timestamp` (Date.now()).
createAuthHeader(self, method, secretName, timestamp) ==
    LET authKey == deriveAuthKey(self)
        authMessage == SignedMessage(ClientMessageFields, method, secretName,
                                     timestamp, self.userId, authKey.kid)
        signatureBuffer == ECDSASign(authKey.priv, Utf8Bytes(authMessage))
    IN  EncodeToken([userId |-> self.userId,
                     keyId |-> authKey.kid,
                     authSignature |-> B64Encode(signatureBuffer),
                     timestamp |-> timestamp,
                     pubKey |-> authKey.pubJWK])

\* The StorageAuthHeader inside a token.
TokenFields(token) == token.v.v.v

(***************************************************************************)
(* The storage API: verification of the token.                             *)
(***************************************************************************)
\* A faulty variant of ServerMessageFields: keyId is written before
\* userId.
ServerMessageFieldsReordered ==
    <<"method", "secretName", "timestamp", "keyId", "userId">>

ServerMessageFields == <<"method", "secretName", "timestamp", "userId", "keyId">>

\* crypto.subtle.importKey('jwk', ...) for ECDSA P-256: the JWK must be an
\* EC key on P-256 whose x and y are the coordinates of one point.
ImportPublicKey(jwk) ==
    IF /\ jwk.kty = "EC" /\ jwk.crv = "P-256"
       /\ jwk.x.enc = "b64" /\ jwk.y.enc = "b64"
       /\ jwk.x.v.coord = "x" /\ jwk.y.v.coord = "y"
       /\ jwk.x.v.of = jwk.y.v.of
    THEN Ok(jwk.x.v.of)
    ELSE Throw("DataError")

pubKeyDigest(keyId, pubKeyJWK) ==
    B64Encode(SHA256(<<keyId, ".", pubKeyJWK.x, ".", pubKeyJWK.y>>))

\* A JSON token may carry a timestamp that is no number (a string such as
\* "x"); it is written NotANumber.  JavaScript converts it to NaN when it
\* compares it with a number, and every comparison with NaN is false.
NotANumber == 0 - 1
Less(a, b) == a # NotANumber /\ b # NotANumber /\ a < b

\* A faulty variant of InTimeframe: the whole clock skew on either side.
InTimeframeWholeSkew(timestamp, now) ==
    ~ (\/ Less(timestamp, now - allowedClockSkew)
       \/ Less(now + allowedClockSkew, timestamp))

\* Lines 43-48: the timestamp is within the allowed clock skew from now.
InTimeframe(timestamp, now) ==
    ~ (\/ Less(timestamp, now - allowedClockSkew \div 2)
       \/ Less(now + allowedClockSkew \div 2, timestamp))

\* Lines 37-41: all required fields are present.
FieldsPresent(sah) ==
    ~ (\/ ~ Truthy(sah.authSignature) \/ ~ Truthy(sah.keyId)
       \/ ~ Truthy(sah.pubKey) \/ sah.timestamp = 0
       \/ Len(sah.userId) = 0)

\* A faulty variant of SignatureValid: the result of verify is not looked
\* at.
SignatureUnverified(method, secretName, sah) ==
    LET jwk == JSONParse(sah.pubKey)
        pubKey == IF jwk.ok THEN ImportPublicKey(jwk.v) ELSE jwk
        sig == B64Decode(sah.authSignature)
    IN  jwk.ok /\ pubKey.ok /\ sig.ok

\* Lines 50-78: the public key is imported and the signature verified.
SignatureValid(method, secretName, sah) ==
    LET jwk == JSONParse(sah.pubKey)
        pubKey == IF jwk.ok THEN ImportPublicKey(jwk.v) ELSE jwk
        authMessage == SignedMessage(ServerMessageFields, method, secretName,
                                     sah.timestamp, sah.userId, sah.keyId)
        sig == B64Decode(sah.authSignature)
    IN  /\ jwk.ok /\ pubKey.ok /\ sig.ok
        /\ ECDSAVerify(pubKey.v, sig.v, Utf8Bytes(authMessage))

\* The result is null ([ok |-> FALSE], with the stage that failed) or
\* {pubKeyDigest, userId}; or the function throws: line 38 reads a member
\* of what JSON.parse gave, outside any try block, and that is null for the
\* JSON text "null".
Rejected(stage) == [ok |-> FALSE, stage |-> stage]
Thrown == [ok |-> FALSE, stage |-> "thrown"]

\* A faulty variant of parseAuthHeader: the signature is verified before
\* the timestamp is compared with the clock.
parseAuthHeaderSignatureFirst(method, secretName, authHeaderValue, now) ==
    IF ~ Truthy(authHeaderValue) THEN Rejected("absent")
    ELSE LET bytes == B64Decode(authHeaderValue)
             parsed == IF bytes.ok THEN JSONParse(Utf8String(bytes.v)) ELSE bytes
         IN  IF ~ parsed.ok THEN Rejected("undecodable")
             ELSE LET sah == parsed.v
                  IN  IF sah = NullStr THEN Thrown
                      ELSE IF ~ FieldsPresent(sah) THEN Rejected("field")
                      ELSE IF ~ SignatureValid(method, secretName, sah)
                      THEN Rejected("signature")
                      ELSE IF ~ InTimeframe(sah.timestamp, now)
                      THEN Rejected("timeframe")
                      ELSE [ok |-> TRUE,
                            pubKeyDigest |-> pubKeyDigest(sah.keyId,
                                                 JSONParse(sah.pubKey).v),
                            userId |-> sah.userId]

parseAuthHeader(method, secretName, authHeaderValue, now) ==
    IF ~ Truthy(authHeaderValue) THEN Rejected("absent")
    ELSE LET bytes == B64Decode(authHeaderValue)
             parsed == IF bytes.ok THEN JSONParse(Utf8String(bytes.v)) ELSE bytes
         IN  IF ~ parsed.ok THEN Rejected("undecodable")
             ELSE LET sah == parsed.v
                  IN  IF sah = NullStr THEN Thrown
                      ELSE IF ~ FieldsPresent(sah) THEN Rejected("field")
                      ELSE IF ~ InTimeframe(sah.timestamp, now)
                      THEN Rejected("timeframe")
                      ELSE IF ~ SignatureValid(method, secretName, sah)
                      THEN Rejected("signature")
                      ELSE [ok |-> TRUE,
                            pubKeyDigest |-> pubKeyDigest(sah.keyId,
                                                 JSONParse(sah.pubKey).v),
                            userId |-> sah.userId]

(***************************************************************************)
(* The blob store (@vercel/blob), keyed by path.                           *)
(***************************************************************************)
\* A faulty variant of BlobPath: the path is made of the name alone.
BlobPathByName(userId, secretName) ==
    <<"secrets/">> \o secretName \o <<".json">>

\* Lines 135, 192, 244: the path of the blob of a user's secret.
BlobPath(userId, secretName) ==
    <<"secrets/">> \o userId \o <<"/">> \o secretName \o <<".json">>

\* The path put() writes when it is asked to add a random suffix.
Suffixed(path) == path \o <<"-", "suffix">>

Paths == LET plain == {BlobPath(u, n) : u \in UserIds, n \in Names}
         IN  plain \cup {Suffixed(p) : p \in plain}

BlobExists(store, path) == store[path].enc # "null"

\* put(path, content, {allowOverwrite, addRandomSuffix}).
put(store, path, content, allowOverwrite, addRandomSuffix) ==
    LET target == IF addRandomSuffix THEN Suffixed(path) ELSE path
    IN  IF BlobExists(store, target) /\ ~ allowOverwrite
        THEN Throw("BlobError")
        ELSE Ok([store EXCEPT ![target] = content])

\* del(path).
del(store, path) == [store EXCEPT ![path] = NullStr]

(***************************************************************************)
(* The storage API: the three route handlers.  `env` tells whether         *)
(* BLOB_READ_WRITE_TOKEN and BLOB_BASE_URL are set, `fault` whether the    *)
(* blob backend fails this request.  The result is the response, the blob  *)
(* store afterwards and the stages the handler went through.               *)
(***************************************************************************)
Response(status, data, store, trace, auth) ==
    [status |-> status, data |-> data, store |-> store, trace |-> trace,
     auth |-> auth]

NoAuth == Rejected("none")

\* A faulty variant of Configured: BLOB_BASE_URL is not looked at.
ConfiguredTokenOnly(e) == e.BLOB_READ_WRITE_TOKEN

\* Lines 102, 169 and 224: both environment variables are set.
Configured(e) == e.BLOB_READ_WRITE_TOKEN /\ e.BLOB_BASE_URL

\* The body of an answer that is no success: NextResponse.json({ error }).
ErrorBody(message) == [enc |-> "error", error |-> message]

\* A faulty variant of Preamble: the 401 answer names the check that
\* failed.
PreambleTelling(env, method, secretName, authorization, now) ==
    IF ~ Configured(env)
    THEN [status |-> 503, trace |-> <<"config">>, auth |-> NoAuth,
          error |-> "Vercel Blob is not configured"]
    ELSE IF Len(secretName) = 0
    THEN [status |-> 400, trace |-> <<"config", "name">>, auth |-> NoAuth,
          error |-> "Secret name is required"]
    ELSE LET authHeader == parseAuthHeader(method, secretName, authorization, now)
         IN  IF authHeader = Thrown
             THEN [status |-> 500, trace |-> <<"config", "name", "auth">>,
                   auth |-> authHeader, error |-> "Internal Server Error"]
             ELSE IF ~ authHeader.ok
             THEN [status |-> 401, trace |-> <<"config", "name", "auth">>,
                   auth |-> authHeader, error |-> authHeader.stage]
             ELSE [status |-> 200, trace |-> <<"config", "name", "auth">>,
                   auth |-> authHeader, error |-> ""]

\* Lines 101-117, 168-184, 223-239: the checks all three handlers start with.
\* parseAuthHeader is called outside the handler's try block: when it
\* throws, the framework answers 500.
Preamble(env, method, secretName, authorization, now) ==
    IF ~ Configured(env)
    THEN [status |-> 503, trace |-> <<"config">>, auth |-> NoAuth,
          error |-> "Vercel Blob is not configured"]
    ELSE IF Len(secretName) = 0
    THEN [status |-> 400, trace |-> <<"config", "name">>, auth |-> NoAuth,
          error |-> "Secret name is required"]
    ELSE LET authHeader == parseAuthHeader(method, secretName, authorization, now)
         IN  IF authHeader = Thrown
             THEN [status |-> 500, trace |-> <<"config", "name", "auth">>,
                   auth |-> authHeader, error |-> "Internal Server Error"]
             ELSE IF ~ authHeader.ok
             THEN [status |-> 401, trace |-> <<"config", "name", "auth">>,
                   auth |-> authHeader,
                   error |-> "Invalid authorization header"]
             ELSE [status |-> 200, trace |-> <<"config", "name", "auth">>,
                   auth |-> authHeader, error |-> ""]

\* A faulty variant of POST: trust on first use is enforced, a path is
\* written only by the key that wrote it first.
POSTFirstWriterOnly(env, secretName, authorization, body, store, now, fault) ==
    LET pre == Preamble(env, "POST", secretName, authorization, now)
        parsed == JSONParse(body)
        secretData == [name |-> secretName,
                       pubKeyDigest |-> pre.auth.pubKeyDigest,
                       data |-> parsed.v.data,
                       timestamp |-> now]
        blobPath == BlobPath(pre.auth.userId, secretName)
        stored == put(store, blobPath, JSONStringify(secretData), TRUE, FALSE)
    IN  IF pre.status # 200
        THEN Response(pre.status, ErrorBody(pre.error), store, pre.trace,
                      pre.auth)
        ELSE IF ~ parsed.ok
        THEN Response(500, ErrorBody("Failed to store secret"), store,
                      pre.trace \o <<"body">>, pre.auth)
        ELSE IF ~ Truthy(parsed.v.data)
        THEN Response(400, ErrorBody("Missing data"), store,
                      pre.trace \o <<"body">>, pre.auth)
        ELSE IF fault
        THEN Response(500, ErrorBody("Failed to store secret"), store,
                      pre.trace \o <<"body", "head">>,
                      pre.auth)
        ELSE IF /\ BlobExists(store, blobPath)
                /\ JSONParse(store[blobPath]).v.pubKeyDigest
                      # pre.auth.pubKeyDigest
        THEN Response(403, ErrorBody("Forbidden"), store,
                      pre.trace \o <<"body", "head">>, pre.auth)
        ELSE IF ~ stored.ok
        THEN Response(500, ErrorBody("Failed to store secret"), store,
                      pre.trace \o <<"body", "head", "put">>, pre.auth)
        ELSE Response(200, NullStr, stored.v,
                      pre.trace \o <<"body", "head", "put">>, pre.auth)

POSTStoresThenChecks(env, secretName, authorization, body, store, now, fault) ==
    LET pre == Preamble(env, "POST", secretName, authorization, now)
        parsed == JSONParse(body)
        secretData == [name |-> secretName,
                       pubKeyDigest |-> pre.auth.pubKeyDigest,
                       data |-> parsed.v.data,
                       timestamp |-> now]
        blobPath == BlobPath(pre.auth.userId, secretName)
        stored == put(store, blobPath, JSONStringify(secretData), TRUE, FALSE)
    IN  IF pre.status # 200
        THEN Response(pre.status, ErrorBody(pre.error), store, pre.trace,
                      pre.auth)
        ELSE IF ~ parsed.ok
        THEN Response(500, ErrorBody("Failed to store secret"), store,
                      pre.trace \o <<"body">>, pre.auth)
        ELSE IF ~ Truthy(parsed.v.data)
        THEN Response(400, ErrorBody("Missing data"), stored.v,
                      pre.trace \o <<"body">>, pre.auth)
        ELSE IF fault
        THEN Response(500, ErrorBody("Failed to store secret"), stored.v,
                      pre.trace \o <<"body", "head">>,
                      pre.auth)
        ELSE IF ~ stored.ok
        THEN Response(500, ErrorBody("Failed to store secret"), store,
                      pre.trace \o <<"body", "head", "put">>, pre.auth)
        ELSE Response(200, NullStr, stored.v,
                      pre.trace \o <<"body", "head", "put">>, pre.auth)

\* The POST handler.
POST(env, secretName, authorization, body, store, now, fault) ==
    LET pre == Preamble(env, "POST", secretName, authorization, now)
        parsed == JSONParse(body)
        secretData == [name |-> secretName,
                       pubKeyDigest |-> pre.auth.pubKeyDigest,
                       data |-> parsed.v.data,
                       timestamp |-> now]
        blobPath == BlobPath(pre.auth.userId, secretName)
        stored == put(store, blobPath, JSONStringify(secretData), TRUE, FALSE)
    IN  IF pre.status # 200
        THEN Response(pre.status, ErrorBody(pre.error), store, pre.trace,
                      pre.auth)
        ELSE IF ~ parsed.ok
        THEN Response(500, ErrorBody("Failed to store secret"), store,
                      pre.trace \o <<"body">>, pre.auth)
        ELSE IF ~ Truthy(parsed.v.data)
        THEN Response(400, ErrorBody("Missing data"), store,
                      pre.trace \o <<"body">>, pre.auth)
        ELSE IF fault
        THEN Response(500, ErrorBody("Failed to store secret"), store,
                      pre.trace \o <<"body", "head">>,
                      pre.auth)
        ELSE IF ~ stored.ok
        THEN Response(500, ErrorBody("Failed to store secret"), store,
                      pre.trace \o <<"body", "head", "put">>, pre.auth)
        ELSE Response(200, NullStr, stored.v,
                      pre.trace \o <<"body", "head", "put">>, pre.auth)

\* A faulty variant of what GET answers: the whole stored record.
RetrievedRecord(secretData) == secretData

\* What GET answers with: the `data` member of the stored record.
RetrievedData(secretData) == secretData.data

GET(env, secretName, authorization, body, store, now, fault) ==
    LET pre == Preamble(env, "GET", secretName, authorization, now)
        blobPath == BlobPath(pre.auth.userId, secretName)
        secretData == JSONParse(store[blobPath])
    IN  IF pre.status # 200
        THEN Response(pre.status, ErrorBody(pre.error), store, pre.trace,
                      pre.auth)
        ELSE IF fault
        THEN Response(500, ErrorBody("Failed to retrieve secret"), store,
                      pre.trace \o <<"fetch">>, pre.auth)
        ELSE IF ~ BlobExists(store, blobPath)
        THEN Response(404, ErrorBody("Secret not found"), store,
                      pre.trace \o <<"fetch">>, pre.auth)
        ELSE IF ~ secretData.ok
        THEN Response(500, ErrorBody("Failed to retrieve secret"), store,
                      pre.trace \o <<"fetch">>, pre.auth)
        ELSE Response(200, RetrievedData(secretData.v), store,
                      pre.trace \o <<"fetch">>, pre.auth)

\* A faulty variant of DELETE: BlobNotFoundError is not caught apart, and
\* a DELETE of an absent blob answers 500.
DELETENotFoundFails(env, secretName, authorization, body, store, now, fault) ==
    LET pre == Preamble(env, "DELETE", secretName, authorization, now)
        blobPath == BlobPath(pre.auth.userId, secretName)
    IN  IF pre.status # 200
        THEN Response(pre.status, ErrorBody(pre.error), store, pre.trace,
                      pre.auth)
        ELSE IF fault \/ ~ BlobExists(store, blobPath)
        THEN Response(500, ErrorBody("Failed to delete secret"), store,
                      pre.trace \o <<"del">>, pre.auth)
        ELSE Response(200, NullStr, del(store, blobPath),
                      pre.trace \o <<"del">>, pre.auth)

DELETE(env, secretName, authorization, body, store, now, fault) ==
    LET pre == Preamble(env, "DELETE", secretName, authorization, now)
        blobPath == BlobPath(pre.auth.userId, secretName)
    IN  IF pre.status # 200
        THEN Response(pre.status, ErrorBody(pre.error), store, pre.trace,
                      pre.auth)
        ELSE IF fault
        THEN Response(500, ErrorBody("Failed to delete secret"), store,
                      pre.trace \o <<"del">>, pre.auth)
        ELSE Response(200, NullStr, del(store, blobPath),
                      pre.trace \o <<"del">>, pre.auth)

\* The route: the handler of the request's method.
Route(env, method, secretName, authorization, body, store, now, fault) ==
    CASE method = "POST" ->
            POST(env, secretName, authorization, body, store, now, fault)
      [] method = "GET" ->
            GET(env, secretName, authorization, body, store, now, fault)
      [] method = "DELETE" ->
            DELETE(env, secretName, authorization, body, store, now, fault)

(***************************************************************************)
(* CryptoUtils: Save, Get and Delete.                                      *)
(***************************************************************************)
\* Key of a secret in localStorage.
LocalKey(secretName) == secretName \o <<"-enc">>

LocalKeys == {LocalKey(n) : n \in Names}

\* Lines 44-69 of Save: the StoredSecret for the random values `salt`,
\* `nonce` and `id` and the time `timestamp`.
EncryptSecret(self, secretName, secretData, salt, nonce, id, timestamp) ==
    LET key == deriveEncryptionKey(self, salt)
        encryptedData == AESGCMEncrypt(key, nonce, TextEncode(secretName),
                                       TextEncode(secretData))
    IN  [enc |-> "obj",
         id |-> id,
         name |-> secretName,
         encryptedData |-> B64Encode(encryptedData),
         salt |-> B64Encode(salt),
         nonce |-> B64Encode(nonce),
         timestamp |-> timestamp]

\* What Get and Delete end with: a value, or an exception of some class.
Returned(v) == [kind |-> "value", v |-> v]
Raised(class) == [kind |-> class, v |-> EmptyStr]
Void == [kind |-> "void", v |-> EmptyStr]
Pending == [kind |-> "none", v |-> EmptyStr]

\* Lines 100-115 of Get: decryption of a loaded StoredSecret.
DecryptSecret(self, secretName, secret) ==
    IF secret.enc # "obj" THEN Throw("TypeError")
    ELSE LET salt == B64Decode(secret.salt)
             nonce == B64Decode(secret.nonce)
             ciphertext == B64Decode(secret.encryptedData)
         IN  IF ~ (salt.ok /\ nonce.ok /\ ciphertext.ok) THEN Throw("TypeError")
             ELSE LET key == deriveEncryptionKey(self, salt.v)
                      decryptedBuffer ==
                          AESGCMDecrypt(key, nonce.v, TextEncode(secretName),
                                        ciphertext.v)
                  IN  IF decryptedBuffer.ok
                      THEN Ok(TextDecode(decryptedBuffer.v))
                      ELSE decryptedBuffer

\* Lines 84-123 of Get, given what was loaded: Ok(secret) or the exception
\* the loading threw.
GetResult(self, secretName, loaded) ==
    IF ~ loaded.ok
    THEN IF loaded.err = "SecretNotFoundError"
         THEN Raised("SecretNotFoundError")
         ELSE Raised("Error")
    ELSE LET plain == DecryptSecret(self, secretName, loaded.v)
         IN  IF plain.ok THEN Returned(plain.v) ELSE Raised("Error")

\* Lines 93-97 of Get: loading from localStorage.
LoadLocal(storage, secretName) ==
    LET storedJSON == storage[LocalKey(secretName)]
    IN  IF ~ Truthy(storedJSON) THEN Throw("SecretNotFoundError")
        ELSE JSONParse(storedJSON)

\* A faulty variant of LoadCloud: 404 is not told from other failures.
LoadCloudAnyFailure(response) ==
    IF response.status # 200 THEN Throw("Error")
    ELSE Ok(response.data)

\* Lines 163-173 of getFromCloud: loading from the response of the API.
LoadCloud(response) ==
    IF response.status = 404 THEN Throw("SecretNotFoundError")
    ELSE IF response.status # 200 THEN Throw("Error")
    ELSE Ok(response.data)

\* Lines 143-146 of saveToCloud and 78-81 of Save.
SaveCloudResult(response) ==
    IF response.status # 200 THEN Raised("Error") ELSE Void

\* Lines 200-203 of deleteFromCloud.
DeleteCloudResult(response) ==
    IF response.status # 200 /\ response.status # 404 THEN Raised("Error")
    ELSE Void

\* The request a cloud call sends: fetch(`/api/secrets/${name}`, ...).
encodeURIComponent(str) == [enc |-> "uri", v |-> str]
RouteParam(segment) == segment.v

CloudRequest(self, method, secretName, body, timestamp) ==
    [method |-> method,
     segment |-> encodeURIComponent(secretName),
     authorization |-> createAuthHeader(self, method, secretName, timestamp),
     body |-> body]

(***************************************************************************)
(* usePasskey: what the hook keeps in memory and what it persists.         *)
(***************************************************************************)
\* The localStorage keys of the hook.
HookKeys == {<<"passkey-user">>, <<"passkey-credential-id">>,
             <<"auth-session">>, <<"encrypted-secret">>}

Usernames == {<<"alice">>}

\* How long a persisted session is restored, ms.
SessionLifetime == 24 * 60 * 60 * 1000

\* The hook after its effect ran on a platform with WebAuthn and PRF and an
\* empty localStorage.
NoHook == [isSupported |-> TRUE, hasPasskey |-> FALSE, user |-> NullStr,
           isAuthenticated |-> FALSE, authSession |-> NullStr, error |-> ""]

\* The credential that the authenticator creates for a user id, and the
\* output of its PRF for the salt of the application.
Credential(userId) == [credentialOf |-> userId]
CredentialPRF(credentialId) == RootOf(credentialId.credentialOf)

PasskeyUser(userId, username, displayName) ==
    [id |-> userId, name |-> username, displayName |-> displayName]

\* A faulty variant of the entry that authenticatePasskey persists: the
\* whole session.
PersistedSessionWhole(session) == JSONStringify(session)

\* The `auth-session` entry that authenticatePasskey persists.
PersistedSession(session) ==
    JSONStringify([userId |-> session.userId, timestamp |-> session.timestamp])

getPRFOutput(h) ==
    IF h.authSession # NullStr /\ "prfOutput" \in DOMAIN h.authSession
    THEN h.authSession.prfOutput
    ELSE ""

(***************************************************************************)
(* State.                                                                  *)
(***************************************************************************)
VARIABLES
    hook,          \* the state of the usePasskey hook (in memory)
    env,           \* the server's environment: which variables are set
    now,           \* the server's clock, ms
    ticks,         \* clock advances so far
    ops,           \* Save and Delete calls so far
    foreign,       \* outsider requests and tamperings so far
    localStorage,  \* the browser's localStorage: key -> string
    blobs,         \* the blob store: path -> content
    call,          \* the client calls: CallIds -> call
    lastReq,       \* the outsider's last request, with what the server did
    localHist,     \* secret name -> what wrote the localStorage entry last
    blobHist       \* path -> what wrote the blob last

vars == <<hook, env, now, ticks, ops, foreign, localStorage, blobs, call, lastReq,
          localHist, blobHist>>

CallIds == {"c1", "c2"}

\* The slot of the calls that run one after the other.
Sequential == {"c1"}

\* History of a storage location: nothing yet, a CryptoUtils Save, a
\* CryptoUtils Delete, or anything else ("foreign"); for a blob, `posted`
\* is the `data` of the body of the last POST the server stored there and
\* `signer` the digest of the public key of its token; both are null after
\* a DELETE.
\* `over` tells whether a Save or Delete found a record of an earlier Save,
\* `altered` whether the record was altered after the Save.
HistNone == [kind |-> "none", prf |-> "", name |-> EmptyStr, data |-> EmptyStr,
             over |-> FALSE, id |-> 0, altered |-> FALSE, by |-> "",
             posted |-> NullStr, signer |-> NullStr]
HistDeleted(before) ==
    [HistNone EXCEPT !.kind = "deleted", !.over = (before.kind = "saved")]
HistForeign == [HistNone EXCEPT !.kind = "foreign"]
HistSaved(self, secretName, secretData, before, id) ==
    [kind |-> "saved", prf |-> self.prfOutput, name |-> secretName,
     data |-> secretData, over |-> (before.kind = "saved"), id |-> id,
     altered |-> FALSE, by |-> self.device, posted |-> NullStr,
     signer |-> NullStr]
\* History of a location an outsider rewrote: with an altered copy of what
\* it held, or with what another location held.
HistAltered(before) ==
    IF before.kind = "saved" THEN [before EXCEPT !.altered = TRUE]
    ELSE HistForeign
HistMoved(source) == IF source.kind = "saved" THEN source ELSE HistForeign

NoRequest == [method |-> "none", segment |-> encodeURIComponent(EmptyStr),
              authorization |-> NullStr, body |-> NullStr]
NoResponse == [status |-> 0, data |-> NullStr, at |-> 0]

IdleCall == [pc |-> "idle", inst |-> "i1", op |-> "none", name |-> EmptyStr,
             data |-> EmptyStr, id |-> 0, request |-> NoRequest,
             response |-> NoResponse, result |-> Pending, seen |-> HistNone,
             absent |-> FALSE]

NoLastReq == [method |-> "none", secretName |-> EmptyStr,
              authorization |-> NullStr, status |-> 0, data |-> NullStr,
              trace |-> << >>,
              auth |-> NoAuth, now |-> 0, from |-> "none",
              changed |-> {}]

Init ==
    /\ hook = NoHook
    /\ env \in [BLOB_READ_WRITE_TOKEN : BOOLEAN, BLOB_BASE_URL : BOOLEAN]
    /\ now = StartTime
    /\ ticks = 0
    /\ ops = 0
    /\ foreign = 0
    /\ localStorage = [k \in LocalKeys \cup HookKeys |-> NullStr]
    /\ blobs = [p \in Paths |-> NullStr]
    /\ call = [c \in CallIds |-> IdleCall]
    /\ lastReq = NoLastReq
    /\ localHist = [n \in Names |-> HistNone]
    /\ blobHist = [p \in Paths |-> HistNone]

\* The random values of the next Save: crypto.getRandomValues and
\* crypto.randomUUID give values that were never given before.
FreshId == ops + 1
FreshSalt == 2 * (ops + 1)
FreshNonce == 2 * (ops + 1) + 1

\* A call takes the first slot that is free.  Save and Delete are counted;
\* Get changes nothing that is stored.
Free(c) == call[c].pc \in {"idle", "done"}
CanStart(c) == Free(c) /\ (c = "c2" => ~ Free("c1"))
CanWrite(c) == CanStart(c) /\ ops < MaxOps

(***************************************************************************)
(* Client calls in local mode: the whole call is one step.                 *)
(***************************************************************************)
SaveLocal(c, i, secretName, secretData) ==
    LET self == Instances[i]
        storedSecret == EncryptSecret(self, secretName, secretData, FreshSalt,
                                      FreshNonce, FreshId, now)
        key == LocalKey(secretName)
    IN  /\ CanWrite(c) /\ ~ UsesCloud(self)
        /\ localStorage' = [localStorage EXCEPT ![key] = JSONStringify(storedSecret)]
        /\ localHist' = [localHist EXCEPT ![secretName] =
                            HistSaved(self, secretName, secretData,
                                      localHist[secretName], FreshId)]
        /\ call' = [call EXCEPT ![c] =
                       [IdleCall EXCEPT !.pc = "done", !.inst = i, !.op = "Save",
                                        !.name = secretName, !.data = secretData,
                                        !.id = FreshId, !.result = Void]]
        /\ ops' = ops + 1
        /\ UNCHANGED <<hook, env, now, ticks, foreign, blobs, lastReq, blobHist>>

GetLocal(c, i, secretName) ==
    LET self == Instances[i]
    IN  /\ CanStart(c) /\ ~ UsesCloud(self)
        /\ call' = [call EXCEPT ![c] =
                       [IdleCall EXCEPT !.pc = "done", !.inst = i, !.op = "Get",
                                        !.name = secretName,
                                        !.result = GetResult(self, secretName,
                                            LoadLocal(localStorage, secretName)),
                                        !.seen = localHist[secretName],
                                        !.absent =
                                            (localStorage[LocalKey(secretName)]
                                                = NullStr)]]
        /\ UNCHANGED ops
        /\ UNCHANGED <<hook, env, now, ticks, foreign, localStorage, blobs, lastReq,
                       localHist, blobHist>>

DeleteLocal(c, i, secretName) ==
    LET self == Instances[i]
    IN  /\ CanWrite(c) /\ ~ UsesCloud(self)
        /\ localStorage' = [localStorage EXCEPT ![LocalKey(secretName)] = NullStr]
        /\ localHist' = [localHist EXCEPT ![secretName] =
                            HistDeleted(localHist[secretName])]
        /\ call' = [call EXCEPT ![c] =
                       [IdleCall EXCEPT !.pc = "done", !.inst = i, !.op = "Delete",
                                        !.name = secretName, !.result = Void]]
        /\ ops' = ops + 1
        /\ UNCHANGED <<hook, env, now, ticks, foreign, blobs, lastReq, blobHist>>

(***************************************************************************)
(* Client calls in cloud mode: the call sends its request, the server      *)
(* handles it, the call receives the response.  `skew` is the difference   *)
(* between the client's clock and the server's.                            *)
(***************************************************************************)
SaveCloud(c, i, secretName, secretData, skew) ==
    LET self == Instances[i]
        storedSecret == EncryptSecret(self, secretName, secretData, FreshSalt,
                                      FreshNonce, FreshId, now + skew)
    IN  /\ CanWrite(c) /\ UsesCloud(self) /\ AuthKeyFailure(self) = "none"
        /\ call' = [call EXCEPT ![c] =
                       [IdleCall EXCEPT !.pc = "sent", !.inst = i, !.op = "Save",
                                        !.name = secretName, !.data = secretData,
                                        !.id = FreshId,
                                        !.request = CloudRequest(self, "POST",
                                            secretName,
                                            JSONStringify([data |-> storedSecret]),
                                            now + skew)]]
        /\ ops' = ops + 1
        /\ UNCHANGED <<hook, env, now, ticks, foreign, localStorage, blobs, lastReq,
                       localHist, blobHist>>

GetCloud(c, i, secretName, skew) ==
    LET self == Instances[i]
    IN  /\ CanStart(c) /\ UsesCloud(self) /\ AuthKeyFailure(self) = "none"
        /\ call' = [call EXCEPT ![c] =
                       [IdleCall EXCEPT !.pc = "sent", !.inst = i, !.op = "Get",
                                        !.name = secretName,
                                        !.request = CloudRequest(self, "GET",
                                            secretName, NullStr, now + skew)]]
        /\ UNCHANGED ops
        /\ UNCHANGED <<hook, env, now, ticks, foreign, localStorage, blobs, lastReq,
                       localHist, blobHist>>

DeleteCloud(c, i, secretName, skew) ==
    LET self == Instances[i]
    IN  /\ CanWrite(c) /\ UsesCloud(self) /\ AuthKeyFailure(self) = "none"
        /\ call' = [call EXCEPT ![c] =
                       [IdleCall EXCEPT !.pc = "sent", !.inst = i, !.op = "Delete",
                                        !.name = secretName,
                                        !.request = CloudRequest(self, "DELETE",
                                            secretName, NullStr, now + skew)]]
        /\ ops' = ops + 1
        /\ UNCHANGED <<hook, env, now, ticks, foreign, localStorage, blobs, lastReq,
                       localHist, blobHist>>

\* What a cloud call throws when createAuthHeader throws: Save and Get
\* throw an Error with the message of the exception, Delete throws the
\* exception itself.
Rethrown(op, class) == IF op = "Delete" THEN Raised(class) ELSE Raised("Error")

\* A cloud call of an instance whose signing key cannot be derived: the
\* call throws before fetch.
CloudFail(c, i, op, secretName) ==
    LET self == Instances[i]
    IN  /\ IF op = "Get" THEN CanStart(c) ELSE CanWrite(c)
        /\ UsesCloud(self)
        /\ AuthKeyFailure(self) # "none"
        /\ call' = [call EXCEPT ![c] =
                       [IdleCall EXCEPT !.pc = "done", !.inst = i, !.op = op,
                                        !.name = secretName,
                                        !.result = Rethrown(op,
                                                      AuthKeyFailure(self))]]
        /\ ops' = IF op = "Get" THEN ops ELSE ops + 1
        /\ UNCHANGED <<hook, env, now, ticks, foreign, localStorage, blobs, lastReq,
                       localHist, blobHist>>

\* The paths whose blob differs between two stores.
Changed(before, after) == {p \in Paths : before[p] # after[p]}

\* History after a request: `mine` is the history the handled path gets
\* when the request wrote or deleted it.
HistAfter(resp, method, secretName, body, mine) ==
    LET touched == IF resp.status = 200 /\ method \in {"POST", "DELETE"}
                   THEN {BlobPath(resp.auth.userId, secretName)}
                   ELSE {}
        posted == IF method = "POST" THEN JSONParse(body).v.data ELSE NullStr
        signer == IF method = "POST" THEN resp.auth.pubKeyDigest ELSE NullStr
    IN  [p \in Paths |->
            IF p \in touched
            THEN [mine EXCEPT !.posted = posted, !.signer = signer]
            ELSE IF p \in Changed(blobs, resp.store) THEN HistForeign
            ELSE blobHist[p]]

LogEntry(resp, method, secretName, authorization, from) ==
    [method |-> method, secretName |-> secretName,
     authorization |-> authorization, status |-> resp.status,
     data |-> resp.data, trace |-> resp.trace, auth |-> resp.auth,
     now |-> now, from |-> from,
     changed |-> Changed(blobs, resp.store)]

\* The server handles the request of call c.
ServerHandle(c, fault) ==
    LET req == call[c].request
        self == Instances[call[c].inst]
        secretName == RouteParam(req.segment)
        path == BlobPath(self.userId, call[c].name)
        mine == IF req.method = "POST"
                THEN HistSaved(self, call[c].name, call[c].data,
                               blobHist[path], call[c].id)
                ELSE HistDeleted(blobHist[path])
    IN  /\ call[c].pc = "sent"
        /\ \E resp \in {Route(env, req.method, secretName, req.authorization,
                              req.body, blobs, now, fault)} :
            /\ blobs' = resp.store
            /\ blobHist' = HistAfter(resp, req.method, secretName, req.body, mine)
            /\ call' = [call EXCEPT ![c].pc = "responded",
                                    ![c].response = [status |-> resp.status,
                                                     data |-> resp.data,
                                                     at |-> now],
                                    ![c].seen = blobHist[path],
                                    ![c].absent = (resp.status = 404)]
            /\ UNCHANGED <<hook, env, now, ticks, ops, foreign, localStorage, lastReq,
                           localHist>>

\* The call receives the response and returns or throws.
ClientReceive(c) ==
    LET self == Instances[call[c].inst]
        resp == call[c].response
        result == CASE call[c].op = "Save" -> SaveCloudResult(resp)
                    [] call[c].op = "Get" ->
                          GetResult(self, call[c].name, LoadCloud(resp))
                    [] call[c].op = "Delete" -> DeleteCloudResult(resp)
    IN  /\ call[c].pc = "responded"
        /\ call' = [call EXCEPT ![c].pc = "done", ![c].result = result,
                                ![c].request = NoRequest]
        /\ UNCHANGED <<hook, env, now, ticks, ops, foreign, localStorage, blobs, lastReq,
                       localHist, blobHist>>

\* The clocks advance.
Tick(step) ==
    /\ ticks < MaxTicks
    /\ now' = now + step
    /\ ticks' = ticks + 1
    /\ UNCHANGED <<hook, env, ops, foreign, localStorage, blobs, call, lastReq, localHist,
                   blobHist>>

(***************************************************************************)
(* Outsiders: whoever can reach the API or the browser's localStorage      *)
(* without holding a user's RootSecret.                                    *)
(***************************************************************************)
\* The CryptoUtils an outsider runs with a secret of its own and the user id
\* it claims.
OutsiderSelf(userId) ==
    [prfOutput |-> OutsiderSecret, baseMessage |-> cryptoBaseMessage,
     userId |-> userId, useCloudStorage |-> TRUE]

OtherOf(x, set) == CHOOSE y \in set : y # x

\* What an outsider may get wrong in (or do to) a token it builds.
Defects == {"none", "absent", "blank", "undecodable", "notJSON", "noUserId",
            "noKeyId", "noSignature", "noTimestamp", "noPubKey",
            "pubKeyNotJSON", "pubKeyNotEC", "userPubKey", "signatureNotB64",
            "otherMethod", "otherName", "otherTimestamp", "otherUserId",
            "otherKeyId", "jsonNull", "timestampNotNumber"}

\* The Authorization header of an outsider's request for (method,
\* secretName) that claims `userId` and carries `timestamp`.
ForgedHeader(defect, userId, method, secretName, timestamp) ==
    LET self == OutsiderSelf(userId)
        good == TokenFields(createAuthHeader(self, method, secretName, timestamp))
        signedAs(m, n, t, u) ==
            TokenFields(createAuthHeader(OutsiderSelf(u), m, n, t)).authSignature
        user == [prfOutput |-> RootOf(userId), baseMessage |-> cryptoBaseMessage,
                 userId |-> userId, useCloudStorage |-> TRUE]
    IN  CASE defect = "none" -> EncodeToken(good)
          [] defect = "jsonNull" -> EncodeToken(NullStr)
          [] defect = "timestampNotNumber" ->
                createAuthHeader(self, method, secretName, NotANumber)
          [] defect = "absent" -> NullStr
          [] defect = "blank" -> BlankStr
          [] defect = "undecodable" -> GarbageStr
          [] defect = "notJSON" -> B64Encode(Utf8Bytes(GarbageStr))
          [] defect = "noUserId" -> EncodeToken([good EXCEPT !.userId = EmptyStr])
          [] defect = "noKeyId" -> EncodeToken([good EXCEPT !.keyId = NullStr])
          [] defect = "noSignature" ->
                EncodeToken([good EXCEPT !.authSignature = BlankStr])
          [] defect = "noTimestamp" -> EncodeToken([good EXCEPT !.timestamp = 0])
          [] defect = "noPubKey" -> EncodeToken([good EXCEPT !.pubKey = NullStr])
          [] defect = "pubKeyNotJSON" ->
                EncodeToken([good EXCEPT !.pubKey = GarbageStr])
          [] defect = "pubKeyNotEC" ->
                EncodeToken([good EXCEPT !.pubKey =
                    JSONStringify([JSONParse(good.pubKey).v EXCEPT !.kty = "oct"])])
          [] defect = "userPubKey" ->
                EncodeToken([good EXCEPT !.pubKey = deriveAuthKey(user).pubJWK,
                                         !.keyId = deriveAuthKey(user).kid])
          [] defect = "signatureNotB64" ->
                EncodeToken([good EXCEPT !.authSignature = GarbageStr])
          [] defect = "otherMethod" ->
                EncodeToken([good EXCEPT !.authSignature =
                    signedAs(OtherOf(method, Methods), secretName, timestamp,
                             userId)])
          [] defect = "otherName" ->
                EncodeToken([good EXCEPT !.authSignature =
                    signedAs(method, OtherOf(secretName, Names), timestamp,
                             userId)])
          [] defect = "otherTimestamp" ->
                EncodeToken([good EXCEPT !.authSignature =
                    signedAs(method, secretName, timestamp + 1, userId)])
          [] defect = "otherUserId" ->
                EncodeToken([good EXCEPT !.authSignature =
                    signedAs(method, secretName, timestamp,
                             OtherOf(userId, UserIds))])
          [] defect = "otherKeyId" ->
                EncodeToken([good EXCEPT !.keyId = B64Encode(Slice(HMAC(OutsiderSecret, <<"other">>), "32..48"))])

\* Altered copies of a StoredSecret.
Alterations == {"encryptedData", "salt", "nonce", "undecodable"}

Altered(secret, how) ==
    CASE how = "encryptedData" ->
            [secret EXCEPT !.encryptedData =
                B64Encode([secret.encryptedData.v EXCEPT !.flip = 1])]
      [] how = "salt" -> [secret EXCEPT !.salt = B64Encode(secret.salt.v + 100)]
      [] how = "nonce" -> [secret EXCEPT !.nonce = B64Encode(secret.nonce.v + 100)]
      [] how = "undecodable" -> [secret EXCEPT !.encryptedData = GarbageStr]

IsSecret(data) == data.enc = "obj" /\ data.encryptedData.enc = "b64"

\* What an outsider does to a stored StoredSecret: it alters a copy, or
\* puts in its place what is stored under the other name.
Forgeries == Alterations \cup {"moved", "garbage"}

Forged(how, present, other) ==
    CASE how \in Alterations -> Altered(present, how)
      [] how = "moved" -> other
      [] how = "garbage" -> GarbageStr

CanForge(how, present, other) ==
    CASE how \in Alterations -> IsSecret(present)
      [] how = "moved" -> IsSecret(other)
      [] how = "garbage" -> TRUE

HistForged(how, present, other) ==
    CASE how \in Alterations -> HistAltered(present)
      [] how = "moved" -> HistMoved(other)
      [] how = "garbage" -> HistForeign

LocalSecret(secretName) ==
    LET str == localStorage[LocalKey(secretName)]
    IN  IF str.enc = "json" THEN str.v ELSE NullStr

BlobSecret(userId, secretName) ==
    LET str == blobs[BlobPath(userId, secretName)]
    IN  IF str.enc = "json" THEN str.v.data ELSE NullStr

\* An outsider sends a request of its own making; the server handles it.
\* `mine` is the history of the path if the request writes it.
OutsiderRequestOnce(method, secretName, authorization, body, fault, mine) ==
    /\ foreign < MaxForeign
    /\ \E resp \in {IF \E c \in CallIds :
                          /\ call[c].pc \in {"responded", "done"}
                          /\ call[c].request.authorization = authorization
                          /\ call[c].response.status \notin {0, 401, 503}
                     THEN Response(401,
                                   ErrorBody("Invalid authorization header"),
                                   blobs, <<"config", "name", "auth">>,
                                   Rejected("used"))
                     ELSE Route(env, method, secretName, authorization, body,
                                blobs, now, fault)} :
        /\ blobs' = resp.store
        /\ blobHist' = HistAfter(resp, method, secretName, body, mine)
        /\ lastReq' = LogEntry(resp, method, secretName, authorization,
                               "outsider")
        /\ foreign' = foreign + 1
        /\ UNCHANGED <<hook, env, now, ticks, ops, localStorage, call, localHist>>

\* The server handles a request of an outsider.
OutsiderRequest(method, secretName, authorization, body, fault, mine) ==
    /\ foreign < MaxForeign
    /\ \E resp \in {Route(env, method, secretName, authorization, body, blobs,
                           now, fault)} :
        /\ blobs' = resp.store
        /\ blobHist' = HistAfter(resp, method, secretName, body, mine)
        /\ lastReq' = LogEntry(resp, method, secretName, authorization,
                               "outsider")
        /\ foreign' = foreign + 1
        /\ UNCHANGED <<hook, env, now, ticks, ops, localStorage, call, localHist>>

\* A request with a well-formed token of the outsider's own key that claims
\* a user's id: a POST of a forged StoredSecret, or a DELETE.
ForgeWrite ==
    \E secretName \in Names, userId \in UserIds, how \in Forgeries \cup {"DELETE"} :
        LET present == BlobSecret(userId, secretName)
            otherName == OtherOf(secretName, Names)
            other == BlobSecret(userId, otherName)
            method == IF how = "DELETE" THEN "DELETE" ELSE "POST"
        IN  \E authorization \in
                    (IF foreign < MaxForeign
                     THEN {ForgedHeader("none", userId, method, secretName, now)}
                     ELSE {}) :
            IF how = "DELETE"
            THEN OutsiderRequest("DELETE", secretName, authorization,
                    NullStr, FALSE, HistForeign)
            ELSE /\ CanForge(how, present, other)
                 /\ OutsiderRequest("POST", secretName, authorization,
                        JSONStringify([data |-> Forged(how, present, other)]),
                        FALSE,
                        HistForged(how, blobHist[BlobPath(userId, secretName)],
                                   blobHist[BlobPath(userId, otherName)]))

\* The requests an outsider tries: <<method, secretName, claimed userId,
\* defect of the token, offset of its timestamp from the server's clock>>.
Probes ==
    (Methods \X Names \X UserIds \X {"none"} \X {0})
    \cup (Methods \X {<<"foo">>} \X {<<"u1">>} \X {"none"} \X ForgedOffsets)
    \cup (Methods \X {<<"foo">>} \X {<<"u1">>} \X Defects \X {0})
    \cup (Methods \X {EmptyStr} \X {<<"u1">>} \X {"none", "absent"} \X {0})

\* A request with any token the outsider can build.
Forge ==
    \E probe \in Probes, fault \in BOOLEAN :
        \E body \in {NullStr, JSONStringify([data |-> NullStr]),
                     JSONStringify([data |-> GarbageStr])} :
            LET method == probe[1]
                secretName == probe[2]
            IN  /\ foreign < MaxForeign
                /\ method # "POST" => body = NullStr
                /\ \E authorization \in
                        {ForgedHeader(probe[4], probe[3], method,
                                      IF secretName = EmptyStr THEN <<"foo">>
                                      ELSE secretName, now + probe[5])} :
                       OutsiderRequest(method, secretName, authorization, body,
                                       fault, HistForeign)

\* A POST with any token the outsider can build and a JSON body that has
\* no data member.
PostWithoutData ==
    \E probe \in Probes, fault \in BOOLEAN :
        /\ probe[1] = "POST"
        /\ \E authorization \in
                {ForgedHeader(probe[4], probe[3], "POST",
                              IF probe[2] = EmptyStr THEN <<"foo">>
                              ELSE probe[2], now + probe[5])} :
               OutsiderRequest("POST", probe[2], authorization,
                               JSONStringify([data |-> NullStr]), fault,
                               HistForeign)

\* A request with a token of a client call, seen on the wire, for any
\* method and name.
Replay ==
    \E c \in CallIds, method \in Methods, secretName \in Names :
        /\ call[c].request.method # "none"
        /\ OutsiderRequest(method, secretName, call[c].request.authorization,
                           call[c].request.body, FALSE, HistForeign)

\* Something other than CryptoUtils writes an entry of localStorage: a
\* forged StoredSecret, the empty string, or JSON that is no StoredSecret.
Tamper ==
    \E secretName \in Names, how \in Forgeries \cup {"empty", "null"} :
        LET present == LocalSecret(secretName)
            otherName == OtherOf(secretName, Names)
            other == LocalSecret(otherName)
            str == CASE how = "empty" -> BlankStr
                     [] how = "null" -> JSONStringify(NullStr)
                     [] how = "garbage" -> GarbageStr
                     [] OTHER -> JSONStringify(Forged(how, present, other))
            hist == IF how \in Forgeries
                    THEN HistForged(how, localHist[secretName],
                                    localHist[otherName])
                    ELSE HistForeign
        IN  /\ foreign < MaxForeign
            /\ how \in Forgeries => CanForge(how, present, other)
            /\ localStorage' = [localStorage EXCEPT ![LocalKey(secretName)] = str]
            /\ localHist' = [localHist EXCEPT ![secretName] = hist]
            /\ foreign' = foreign + 1
            /\ UNCHANGED <<hook, env, now, ticks, ops, blobs, call, lastReq, blobHist>>

(***************************************************************************)
(* The operations of usePasskey.                                           *)
(***************************************************************************)
\* registerPasskey: navigator.credentials.create gives a credential, or
\* fails (the user cancels).
registerPasskey(userId, username, created) ==
    /\ hook.isSupported
    /\ IF created
       THEN LET passkeyUser == PasskeyUser(userId, username, username)
                session == [userId |-> passkeyUser.id, timestamp |-> now]
            IN  /\ localStorage' =
                        [localStorage EXCEPT
                            ![<<"passkey-user">>] = JSONStringify(passkeyUser),
                            ![<<"passkey-credential-id">>] = Credential(userId),
                            ![<<"auth-session">>] = JSONStringify(session)]
                /\ hook' = [hook EXCEPT !.user = passkeyUser,
                                        !.hasPasskey = TRUE,
                                        !.authSession = session,
                                        !.isAuthenticated = TRUE,
                                        !.error = ""]
       ELSE /\ hook' = [hook EXCEPT !.error = "Failed to create passkey"]
            /\ UNCHANGED localStorage
    /\ UNCHANGED <<env, now, ticks, ops, foreign, blobs, call, lastReq,
                   localHist, blobHist>>

\* authenticatePasskey: navigator.credentials.get gives an assertion with
\* the PRF output, an assertion without it, or fails.
authenticatePasskey(outcome) ==
    /\ hook.isSupported /\ hook.hasPasskey
    /\ LET credentialId == localStorage[<<"passkey-credential-id">>]
       IN  IF credentialId = NullStr
           THEN /\ hook' = [hook EXCEPT !.error = "No credential ID found"]
                /\ UNCHANGED localStorage
           ELSE IF outcome = "failed"
           THEN /\ hook' = [hook EXCEPT !.error = "Authentication failed"]
                /\ UNCHANGED localStorage
           ELSE IF outcome = "noPRF"
           THEN /\ hook' = [hook EXCEPT !.error =
                    "Authenticator does not support the required PRF extension"]
                /\ UNCHANGED localStorage
           ELSE LET session == [userId |-> hook.user.id, timestamp |-> now,
                                prfOutput |-> CredentialPRF(credentialId)]
                IN  /\ localStorage' = [localStorage EXCEPT
                            ![<<"auth-session">>] = PersistedSession(session)]
                    /\ hook' = [hook EXCEPT !.authSession = session,
                                            !.isAuthenticated = TRUE,
                                            !.error = ""]
    /\ UNCHANGED <<env, now, ticks, ops, foreign, blobs, call, lastReq,
                   localHist, blobHist>>

signOut ==
    /\ localStorage' = [localStorage EXCEPT ![<<"auth-session">>] = NullStr]
    /\ hook' = [hook EXCEPT !.authSession = NullStr, !.isAuthenticated = FALSE,
                            !.error = ""]
    /\ UNCHANGED <<env, now, ticks, ops, foreign, blobs, call, lastReq,
                   localHist, blobHist>>

clearPasskey ==
    /\ localStorage' = [localStorage EXCEPT
                            ![<<"passkey-user">>] = NullStr,
                            ![<<"passkey-credential-id">>] = NullStr,
                            ![<<"auth-session">>] = NullStr,
                            ![<<"encrypted-secret">>] = NullStr]
    /\ hook' = [hook EXCEPT !.user = NullStr, !.hasPasskey = FALSE,
                            !.authSession = NullStr,
                            !.isAuthenticated = FALSE, !.error = ""]
    /\ UNCHANGED <<env, now, ticks, ops, foreign, blobs, call, lastReq,
                   localHist, blobHist>>

\* The page is loaded again: the state in memory is gone and the effect
\* of the hook restores what localStorage holds.
checkSupport ==
    LET storedUser == localStorage[<<"passkey-user">>]
        storedCredentialId == localStorage[<<"passkey-credential-id">>]
        storedSession == localStorage[<<"auth-session">>]
        known == storedUser # NullStr /\ storedCredentialId # NullStr
        isSessionValid == now - JSONParse(storedSession).v.timestamp
                            < SessionLifetime
    IN  /\ hook' =
              IF ~ known THEN NoHook
              ELSE IF storedSession = NullStr \/ ~ isSessionValid
              THEN [NoHook EXCEPT !.user = JSONParse(storedUser).v,
                                  !.hasPasskey = TRUE]
              ELSE [NoHook EXCEPT !.user = JSONParse(storedUser).v,
                                  !.hasPasskey = TRUE,
                                  !.authSession = JSONParse(storedSession).v,
                                  !.isAuthenticated = TRUE]
        /\ localStorage' =
              IF known /\ storedSession # NullStr /\ ~ isSessionValid
              THEN [localStorage EXCEPT ![<<"auth-session">>] = NullStr]
              ELSE localStorage
        /\ UNCHANGED <<env, now, ticks, ops, foreign, blobs, call, lastReq,
                       localHist, blobHist>>

\* The instances that the page constructs: CryptoUtils is given the PRF
\* output that the hook holds, and none is constructed without it.
PageInstances ==
    {i \in InstIds : /\ getPRFOutput(hook) # ""
                     /\ Instances[i].prfOutput = getPRFOutput(hook)
                     /\ ~ UsesCloud(Instances[i])}

(***************************************************************************)
(* Specification.                                                          *)
(***************************************************************************)
Next ==
    \/ \E c \in Sequential, i \in InstIds, n \in Names, d \in Plaintexts :
            SaveLocal(c, i, n, d)
    \/ \E c \in Sequential, i \in InstIds, n \in Names : GetLocal(c, i, n)
    \/ \E c \in Sequential, i \in InstIds, n \in Names : DeleteLocal(c, i, n)
    \/ \E c \in Sequential, i \in InstIds, n \in Names, d \in Plaintexts :
            SaveCloud(c, i, n, d, 0)
    \/ \E c \in Sequential, i \in InstIds, n \in Names : GetCloud(c, i, n, 0)
    \/ \E c \in Sequential, i \in InstIds, n \in Names : DeleteCloud(c, i, n, 0)
    \/ \E c \in Sequential, fault \in BOOLEAN : ServerHandle(c, fault)
    \/ \E c \in Sequential : ClientReceive(c)
    \/ ForgeWrite
    \/ Tamper

Spec == Init /\ [][Next]_vars

\* The storage API under requests of any making.
NextAuth ==
    \/ \E c \in Sequential, i \in {"i3"}, n \in Names, skew \in ClockSkews :
            GetCloud(c, i, n, skew)
    \/ \E c \in Sequential, fault \in BOOLEAN : ServerHandle(c, fault)
    \/ \E c \in Sequential : ClientReceive(c)
    \/ \E step \in TickSteps : Tick(step)
    \/ Forge
    \/ Replay

SpecAuth == Init /\ [][NextAuth]_vars

\* The passkey hook and the storage operations of the page.
NextPasskey ==
    \/ \E u \in UserIds, username \in Usernames, created \in BOOLEAN :
            registerPasskey(u, username, created)
    \/ \E outcome \in {"ok", "noPRF", "failed"} : authenticatePasskey(outcome)
    \/ signOut
    \/ clearPasskey
    \/ checkSupport
    \/ \E step \in {SessionLifetime} : Tick(step)
    \/ \E c \in Sequential, i \in PageInstances, n \in Names, d \in Plaintexts :
            SaveLocal(c, i, n, d)
    \/ \E c \in Sequential, i \in PageInstances, n \in Names : GetLocal(c, i, n)
    \/ \E c \in Sequential, i \in PageInstances, n \in Names : DeleteLocal(c, i, n)

\* The page stores its secrets in localStorage.
InitPasskey == Init /\ Configured(env)

SpecPasskey == InitPasskey /\ [][NextPasskey]_vars

\* Cloud calls of instances with and without a RootSecret.
NextDerive ==
    \/ \E c \in Sequential, i \in BrokenIds \cup {"i3"}, n \in Names,
          op \in {"Save", "Get", "Delete"} : CloudFail(c, i, op, n)
    \/ \E c \in Sequential, i \in BrokenIds \cup {"i3"}, n \in Names,
          d \in Plaintexts : SaveCloud(c, i, n, d, 0)
    \/ \E c \in Sequential, i \in BrokenIds \cup {"i3"}, n \in Names :
            GetCloud(c, i, n, 0)
    \/ \E c \in Sequential, i \in BrokenIds \cup {"i3"}, n \in Names :
            DeleteCloud(c, i, n, 0)
    \/ \E c \in Sequential : ServerHandle(c, FALSE)
    \/ \E c \in Sequential : ClientReceive(c)

SpecDerive == InitPasskey /\ [][NextDerive]_vars

\* Calls that run at the same time: a second call starts while the first
\* waits for the server, on the same instance or on the other device.
NextRace ==
    \/ \E c \in CallIds, i \in {"i3", "i4"}, n \in Names, d \in Plaintexts :
            SaveCloud(c, i, n, d, 0)
    \/ \E c \in CallIds, i \in {"i3"}, n \in Names : GetCloud(c, i, n, 0)
    \/ \E c \in CallIds : ServerHandle(c, FALSE)
    \/ \E c \in CallIds : ClientReceive(c)

SpecRace == InitPasskey /\ [][NextRace]_vars

\* Saves that fail: the signing key cannot be derived, the token is
\* outside the window, the storage is not configured or fails, the body
\* carries no data.
NextSaveFail ==
    \/ \E c \in Sequential, n \in Names, d \in Plaintexts, skew \in ClockSkews :
            SaveCloud(c, "i3", n, d, skew)
    \/ \E c \in Sequential, i \in BrokenIds, n \in Names :
            CloudFail(c, i, "Save", n)
    \/ \E c \in Sequential, fault \in BOOLEAN : ServerHandle(c, fault)
    \/ \E c \in Sequential : ClientReceive(c)
    \/ Forge

SpecSaveFail == Init /\ [][NextSaveFail]_vars

\* POST requests without data, to a store that holds records or none.
NextPostNoData ==
    \/ \E c \in Sequential, n \in Names, d \in Plaintexts :
            SaveCloud(c, "i3", n, d, 0)
    \/ \E c \in Sequential : ServerHandle(c, FALSE)
    \/ \E c \in Sequential : ClientReceive(c)
    \/ PostWithoutData

SpecPostNoData == Init /\ [][NextPostNoData]_vars

\* Writes and deletions of several users and names, in both backends.
NextIsolation ==
    \/ \E c \in Sequential, i \in {"i1", "i2"}, n \in Names, d \in Plaintexts :
            SaveLocal(c, i, n, d)
    \/ \E c \in Sequential, i \in {"i1", "i2"}, n \in Names : DeleteLocal(c, i, n)
    \/ \E c \in Sequential, n \in Names, d \in Plaintexts :
            SaveCloud(c, "i3", n, d, 0)
    \/ \E c \in Sequential, n \in Names : DeleteCloud(c, "i3", n, 0)
    \/ \E c \in Sequential : ServerHandle(c, FALSE)
    \/ \E c \in Sequential : ClientReceive(c)
    \/ ForgeWrite

SpecIsolation == InitPasskey /\ [][NextIsolation]_vars

\* Calls of instances with every combination of the two options.
BackendIds == {"i1", "i3"} \cup MixedIds

NextBackend ==
    \/ \E c \in Sequential, i \in BackendIds, n \in Names, d \in Plaintexts :
            SaveLocal(c, i, n, d)
    \/ \E c \in Sequential, i \in BackendIds, n \in Names : GetLocal(c, i, n)
    \/ \E c \in Sequential, i \in BackendIds, n \in Names : DeleteLocal(c, i, n)
    \/ \E c \in Sequential, i \in BackendIds, n \in Names, d \in Plaintexts :
            SaveCloud(c, i, n, d, 0)
    \/ \E c \in Sequential, i \in BackendIds, n \in Names : GetCloud(c, i, n, 0)
    \/ \E c \in Sequential, i \in BackendIds, n \in Names : DeleteCloud(c, i, n, 0)
    \/ \E c \in Sequential : ServerHandle(c, FALSE)
    \/ \E c \in Sequential : ClientReceive(c)

SpecBackend == InitPasskey /\ [][NextBackend]_vars

(***************************************************************************)
(* Vocabulary of the properties.                                           *)
(***************************************************************************)
\* A call that has returned or thrown.
Done(c, op) == call[c].pc = "done" /\ call[c].op = op

SelfOf(c) == Instances[call[c].inst]

\* The server answered the call's request, if it is a cloud call: it was
\* configured, accepted the token and its blob backend worked.
Served(c) ==
    UsesCloud(SelfOf(c)) => call[c].response.status \notin {401, 500, 503}

\* What the Get of call c read was written by a Save(name, data) of an
\* instance with the same RootSecret, and by nothing since.
ReadsOwnSave(c) ==
    /\ call[c].seen.kind = "saved"
    /\ ~ call[c].seen.altered
    /\ call[c].seen.name = call[c].name
    /\ call[c].seen.prf = SelfOf(c).prfOutput

\* The key pair of the user with this id.
UserSelf(userId) ==
    [prfOutput |-> RootOf(userId), baseMessage |-> cryptoBaseMessage,
     userId |-> userId, useCloudStorage |-> TRUE]

\* The token carries a signature made with the key derived from the
\* RootSecret of the user.
SignedByUser(token, userId) ==
    LET sig == B64Decode(TokenFields(token).authSignature)
    IN  sig.ok /\ sig.v.signer = PublicPoint(deriveAuthKey(UserSelf(userId)).priv)

(***************************************************************************)
(* C1  Round-trip: a Get(N) that follows a successful Save(N, P) of the    *)
(* same RootSecret, with no other Save or Delete of N in between, returns  *)
(* exactly P (local mode, or cloud mode with the server accepting the      *)
(* requests).                                                              *)
(***************************************************************************)
C1_RoundTrip ==
    \A c \in CallIds :
        (Done(c, "Get") /\ ReadsOwnSave(c) /\ Served(c))
            => call[c].result = Returned(call[c].seen.data)

(***************************************************************************)
(* C2  Unforgeable userId: every request the server accepts with userId U  *)
(* carries a token signed with the key derived from U's RootSecret and U.  *)
(***************************************************************************)
C2_UnforgeableUserId ==
    lastReq.auth.ok => SignedByUser(lastReq.authorization, lastReq.auth.userId)

\* The StorageAuthHeader a header value decodes to, if it decodes.
IsToken(token) ==
    /\ token.enc = "b64" /\ token.v.enc = "utf8" /\ token.v.v.enc = "json"
    /\ token.v.v.v # NullStr

\* All five members are there.
HasAllFields(sah) ==
    /\ Truthy(sah.authSignature) /\ Truthy(sah.keyId) /\ Truthy(sah.pubKey)
    /\ sah.timestamp # 0 /\ sah.userId # EmptyStr

\* The public key parses and the signature is one of the message that the
\* client signs for (method, secretName) and the token's own timestamp,
\* userId and keyId.
HasValidSignature(method, secretName, sah) ==
    LET jwk == JSONParse(sah.pubKey)
        key == IF jwk.ok THEN ImportPublicKey(jwk.v) ELSE jwk
        sig == B64Decode(sah.authSignature)
    IN  /\ jwk.ok /\ key.ok /\ sig.ok
        /\ ECDSAVerify(key.v, sig.v,
               Utf8Bytes(SignedMessage(ClientMessageFields, method, secretName,
                                       sah.timestamp, sah.userId, sah.keyId)))

WithinWindow(timestamp, at) ==
    at - 150000 <= timestamp /\ timestamp <= at + 150000

\* The header value is a token with all fields and a valid signature.
WellSigned(method, secretName, token) ==
    /\ IsToken(token)
    /\ HasAllFields(TokenFields(token))
    /\ HasValidSignature(method, secretName, TokenFields(token))

\* The outsider's last request got as far as the check of its token.
TokenChecked == lastReq.method # "none" /\ Len(lastReq.trace) >= 3

Accepts(method, secretName, token, at) ==
    parseAuthHeader(method, secretName, token, at).ok

\* The tokens on the wire.
InFlight == {c \in CallIds : call[c].request.method # "none"}

TokensSeen ==
    {call[c].request.authorization : c \in InFlight}
    \cup (IF lastReq.method # "none" THEN {lastReq.authorization} ELSE {})

\* No blob operation is among the stages of a request.
NoBlobOperation(trace) ==
    \A k \in 1..Len(trace) : trace[k] \notin {"head", "put", "fetch", "del"}

(***************************************************************************)
(* C3  Signature binding: a token that is accepted for (method M, name N)  *)
(* is rejected, at the same server time, for every other method and every  *)
(* other name.                                                             *)
(***************************************************************************)
C3_SignatureBinding ==
    /\ \A token \in TokensSeen, m1 \in Methods, m2 \in Methods,
          n1 \in Names, n2 \in Names, at \in {now, lastReq.now} :
            (Accepts(m1, n1, token, at) /\ <<m1, n1>> # <<m2, n2>>)
                => ~ Accepts(m2, n2, token, at)
    /\ \A c \in InFlight :
            LET req == call[c].request
            IN  ( /\ lastReq.authorization = req.authorization
                  /\ <<lastReq.method, lastReq.secretName>>
                        # <<req.method, RouteParam(req.segment)>>
                  /\ Accepts(req.method, RouteParam(req.segment),
                             req.authorization, lastReq.now) )
                    => ~ lastReq.auth.ok

\* A client's token, good for its own request, was replayed for another
\* method and failed the signature check.
C3_Witness ==
    \E c \in InFlight :
        LET req == call[c].request
        IN  /\ lastReq.authorization = req.authorization
            /\ lastReq.method # req.method
            /\ lastReq.secretName = RouteParam(req.segment)
            /\ Accepts(req.method, RouteParam(req.segment), req.authorization,
                       lastReq.now)
            /\ ~ lastReq.auth.ok
            /\ lastReq.auth.stage = "signature"

(***************************************************************************)
(* C4  Replay window: a token with all fields and a valid signature is     *)
(* accepted exactly when now - 150000 <= timestamp <= now + 150000.        *)
(***************************************************************************)
C4_ReplayWindow ==
    ( /\ TokenChecked
      /\ WellSigned(lastReq.method, lastReq.secretName, lastReq.authorization) )
        => ( lastReq.auth.ok
               <=> WithinWindow(TokenFields(lastReq.authorization).timestamp,
                                lastReq.now) )

\* A token stamped exactly 2.5 minutes ahead of the server was accepted.
C4_Witness ==
    /\ TokenChecked
    /\ WellSigned(lastReq.method, lastReq.secretName, lastReq.authorization)
    /\ TokenFields(lastReq.authorization).timestamp = lastReq.now + 150000
    /\ lastReq.auth.ok

(***************************************************************************)
(* C5  Unauthorized requests never reach persistence: a request whose      *)
(* Authorization header is absent, undecodable, incomplete, outside the    *)
(* window, with an unparsable key or a wrong signature is answered 401,    *)
(* and no blob is read, written or deleted.                                *)
(***************************************************************************)
Unauthorized(method, secretName, token, at) ==
    ~ ( /\ WellSigned(method, secretName, token)
        /\ WithinWindow(TokenFields(token).timestamp, at) )

C5_Unauthorized401 ==
    ( /\ lastReq.method # "none"
      /\ Unauthorized(lastReq.method, lastReq.secretName,
                      lastReq.authorization, lastReq.now) )
        => ( /\ lastReq.status = 401
             /\ NoBlobOperation(lastReq.trace)
             /\ lastReq.changed = {} )

(***************************************************************************)
(* C5 read with the checks that come before the token: such a request is   *)
(* answered 401, or 503 when the blob storage is not configured, or 400    *)
(* when the secret name is empty, and in every case no blob is read,       *)
(* written or deleted.                                                     *)
(***************************************************************************)
C5_UnauthorizedNoPersistence ==
    ( /\ lastReq.method # "none"
      /\ Unauthorized(lastReq.method, lastReq.secretName,
                      lastReq.authorization, lastReq.now) )
        => ( /\ lastReq.status = IF ~ Configured(env) THEN 503
                                 ELSE IF lastReq.secretName = EmptyStr THEN 400
                                 ELSE 401
             /\ NoBlobOperation(lastReq.trace)
             /\ lastReq.changed = {} )

\* A POST with a signature made for another request was answered 401.
C5_Witness ==
    /\ lastReq.method = "POST"
    /\ IsToken(lastReq.authorization)
    /\ HasAllFields(TokenFields(lastReq.authorization))
    /\ ~ HasValidSignature("POST", lastReq.secretName,
                           TokenFields(lastReq.authorization))
    /\ lastReq.status = 401

(***************************************************************************)
(* C6  Completeness of honest tokens: a token built by createAuthHeader    *)
(* for (method, secretName) is accepted for that method and name whenever  *)
(* the server clock is within 2.5 minutes of its timestamp; client and     *)
(* server serialize the same fields in the same order, and the token's     *)
(* userId, keyId and timestamp are the signed ones.                        *)
(***************************************************************************)
BuiltByClient(token, self, method, secretName) ==
    /\ IsToken(token)
    /\ token = createAuthHeader(self, method, secretName,
                                TokenFields(token).timestamp)

C6_HonestTokenAccepted ==
    /\ ClientMessageFields = ServerMessageFields
    /\ \A c \in CallIds :
            ( /\ call[c].pc = "responded" /\ Configured(env)
              /\ WithinWindow(TokenFields(call[c].request.authorization).timestamp,
                              call[c].response.at) )
                => call[c].response.status # 401
    /\ \A c \in InFlight :
            WellSigned(call[c].request.method, RouteParam(call[c].request.segment),
                       call[c].request.authorization)
    /\ ( /\ TokenChecked
          /\ \E u \in UserIds :
                BuiltByClient(lastReq.authorization, OutsiderSelf(u),
                              lastReq.method, lastReq.secretName)
          /\ WithinWindow(TokenFields(lastReq.authorization).timestamp,
                          lastReq.now) )
            => lastReq.auth.ok

\* A client's token reached the server exactly 2.5 minutes after it was
\* made and was accepted.
C6_Witness ==
    \E c \in CallIds :
        /\ call[c].pc = "responded"
        /\ TokenFields(call[c].request.authorization).timestamp
              = call[c].response.at - 150000
        /\ call[c].response.status \in {200, 404}

(***************************************************************************)
(* C7  Tamper detection: a Get that reads a record whose encryptedData,    *)
(* salt or nonce was altered, or a record that was saved under another     *)
(* name, fails with an error; a Get never returns a plaintext other than   *)
(* the one saved in the record it read.                                    *)
(***************************************************************************)
ReadsTampered(c) ==
    /\ call[c].seen.kind = "saved"
    /\ call[c].seen.altered \/ call[c].seen.name # call[c].name

C7_TamperDetection ==
    \A c \in CallIds :
        (Done(c, "Get") /\ call[c].seen.kind = "saved" /\ Served(c))
            => /\ ReadsTampered(c) => call[c].result = Raised("Error")
               /\ call[c].result.kind = "value"
                    => call[c].result.v = call[c].seen.data

(***************************************************************************)
(* C8  Not-found versus corrupted: Get(N) raises SecretNotFoundError if    *)
(* and only if there is no record for N (local mode: no N-enc entry in     *)
(* localStorage; cloud mode: the server answers 404); every other failure  *)
(* raises an error of another class.                                       *)
(***************************************************************************)
NoRecord(c) ==
    IF UsesCloud(SelfOf(c)) THEN call[c].response.status = 404
    ELSE call[c].absent

C8_NotFoundIffNoRecord ==
    \A c \in CallIds :
        Done(c, "Get")
            => /\ call[c].result.kind \in {"value", "Error", "SecretNotFoundError"}
               /\ call[c].result = Raised("SecretNotFoundError") <=> NoRecord(c)

(***************************************************************************)
(* C9  Delete then Get: a Get(N) that follows Save(N, P) and then a        *)
(* completed Delete(N), with no Save(N, ...) since, raises                 *)
(* SecretNotFoundError, in local mode and in cloud mode.                   *)
(***************************************************************************)
ReadsDeleted(c) == call[c].seen.kind = "deleted" /\ call[c].seen.over

C9_DeleteThenGet ==
    \A c \in CallIds :
        (Done(c, "Get") /\ ReadsDeleted(c) /\ Served(c))
            => call[c].result = Raised("SecretNotFoundError")

\* A cloud Get of a name that was saved and then deleted got 404 and
\* raised SecretNotFoundError.
C9_Witness ==
    \E c \in CallIds :
        /\ Done(c, "Get") /\ ReadsDeleted(c)
        /\ UsesCloud(SelfOf(c))
        /\ call[c].response.status = 404
        /\ call[c].result = Raised("SecretNotFoundError")

(***************************************************************************)
(* C10  Overwrite on Save: after Save(N, P1) and then Save(N, P2), one     *)
(* record is stored for N (under N-enc, or at secrets/{userId}/N.json:     *)
(* no blob with a suffixed path exists), it is the record of the second    *)
(* Save, and Get(N) returns P2.                                            *)
(***************************************************************************)
StoredIs(stored, hist) ==
    (hist.kind = "saved" /\ ~ hist.altered /\ hist.over)
        => stored.enc = "obj" /\ stored.id = hist.id

C10_OverwriteOnSave ==
    /\ \A n \in Names : StoredIs(LocalSecret(n), localHist[n])
    /\ \A u \in UserIds, n \in Names :
            /\ blobHist[BlobPath(u, n)].name = n
                    => StoredIs(BlobSecret(u, n), blobHist[BlobPath(u, n)])
            /\ blobs[Suffixed(BlobPath(u, n))] = NullStr
    /\ \A c \in CallIds :
            ( /\ Done(c, "Get") /\ ReadsOwnSave(c) /\ call[c].seen.over
              /\ Served(c) )
                => call[c].result = Returned(call[c].seen.data)


(***************************************************************************)
(* C11  Delete is idempotent: Delete(N) completes without error whether or *)
(* not a record for N exists, and a second Delete(N) leaves the storage as *)
(* the first left it; an authorized DELETE for an absent blob answers 200, *)
(* and the client takes a 404 answer to DELETE as success.                 *)
(***************************************************************************)
\* A DELETE request is on its way to a configured server.
DeleteSent(c) ==
    call[c].pc = "sent" /\ call[c].op = "Delete" /\ Configured(env)

C11_DeleteIdempotent ==
    /\ \A c \in CallIds :
            (Done(c, "Delete") /\ Served(c)) => call[c].result = Void
    /\ \A c \in CallIds :
            DeleteSent(c) =>
                LET req == call[c].request
                    path == BlobPath(SelfOf(c).userId, call[c].name)
                    once == DELETE(env, RouteParam(req.segment),
                                   req.authorization, req.body, blobs, now, FALSE)
                    twice == DELETE(env, RouteParam(req.segment),
                                    req.authorization, req.body, once.store, now,
                                    FALSE)
                IN  /\ once.status = 200 /\ twice.status = 200
                    /\ once.store[path] = NullStr
                    /\ \A p \in Paths \ {path} : once.store[p] = blobs[p]
                    /\ twice.store = once.store
    /\ \A n \in Names :
            localHist[n].kind = "deleted" => localStorage[LocalKey(n)] = NullStr
    /\ \A p \in Paths : blobHist[p].kind = "deleted" => blobs[p] = NullStr
    /\ DeleteCloudResult([NoResponse EXCEPT !.status = 404]) = Void
    /\ DeleteCloudResult([NoResponse EXCEPT !.status = 200]) = Void

\* A cloud Delete of a name whose blob an earlier Delete had removed was
\* answered 200 and completed without error.
C11_Witness ==
    \E c \in CallIds :
        /\ Done(c, "Delete") /\ UsesCloud(SelfOf(c))
        /\ call[c].seen.kind = "deleted"
        /\ call[c].response.status = 200
        /\ call[c].result = Void
        /\ blobs[BlobPath(SelfOf(c).userId, call[c].name)] = NullStr


(***************************************************************************)
(* C12  The server never receives secrets: the token of every request a    *)
(* client sends carries only userId, keyId, authSignature, timestamp and   *)
(* the public JWK (no member d), the body only the StoredSecret (id, name, *)
(* ciphertext, salt, nonce, timestamp); neither holds the RootSecret, a    *)
(* derived encryption key, the private scalar or the plaintext, and the    *)
(* blob stored for a Save holds the ciphertext and a public-key digest.    *)
(***************************************************************************)
StoredSecretMembers ==
    {"enc", "id", "name", "encryptedData", "salt", "nonce", "timestamp"}

\* The record is a StoredSecret whose encryptedData is the AES-GCM
\* ciphertext under the key that `self` derives for the record's salt.
OnlyCiphertext(self, record) ==
    /\ DOMAIN record = StoredSecretMembers
    /\ record.id \in Nat /\ record.timestamp \in Nat
    /\ record.salt.v \in Nat /\ record.nonce.v \in Nat
    /\ record.encryptedData.enc = "b64"
    /\ record.encryptedData.v.key = deriveEncryptionKey(self, record.salt.v)
    /\ record.encryptedData.v.iv = record.nonce.v
    /\ record.encryptedData # B64Encode(deriveAuthKey(self).priv)

TokenHasNoSecret(self, token) ==
    LET sah == TokenFields(token)
        jwk == JSONParse(sah.pubKey).v
        authKey == deriveAuthKey(self)
    IN  /\ DOMAIN sah = {"userId", "keyId", "authSignature", "timestamp", "pubKey"}
        /\ sah.userId = self.userId
        /\ sah.timestamp \in Nat
        /\ DOMAIN jwk = {"kty", "crv", "x", "y", "ext", "key_ops"}
        /\ B64Encode(authKey.priv)
              \notin {sah.keyId, sah.authSignature, jwk.x, jwk.y}
        /\ sah.keyId = B64Encode(Slice(HMAC(self.prfOutput,
                            TextEncode(<<"auth-key-v1:">> \o self.userId)),
                            "32..48"))
        /\ sah.authSignature.v.signer = PublicPoint(authKey.priv)
        /\ jwk.x.v.coord = "x" /\ jwk.y.v.coord = "y"

C12_NoSecretsSent ==
    /\ \A c \in InFlight :
            LET req == call[c].request
            IN  /\ IsToken(req.authorization)
                /\ TokenHasNoSecret(SelfOf(c), req.authorization)
                /\ req.segment = encodeURIComponent(call[c].name)
                /\ IF req.method = "POST"
                   THEN /\ req.body.enc = "json"
                        /\ DOMAIN req.body.v = {"data"}
                        /\ OnlyCiphertext(SelfOf(c), req.body.v.data)
                        /\ req.body.v.data.name = call[c].name
                   ELSE req.body = NullStr
    /\ \A u \in UserIds, n \in Names :
            LET hist == blobHist[BlobPath(u, n)]
                blob == blobs[BlobPath(u, n)]
            IN  (hist.kind = "saved" /\ ~ hist.altered /\ hist.name = n)
                    => /\ blob.enc = "json"
                       /\ DOMAIN blob.v = {"name", "pubKeyDigest", "data",
                                           "timestamp"}
                       /\ blob.v.name = n
                       /\ blob.v.pubKeyDigest.v.alg = "SHA-256"
                       /\ OnlyCiphertext(UserSelf(u), blob.v.data)

\* The server stored the body of a client's POST.
C12_Witness ==
    \E c \in InFlight :
        /\ call[c].request.method = "POST"
        /\ call[c].pc = "responded"
        /\ call[c].response.status = 200
        /\ blobs[BlobPath(SelfOf(c).userId, call[c].name)].enc = "json"


(***************************************************************************)
(* C13  Cross-device retrieval: a Get(N) that reads the record of a        *)
(* Save(N, P) made by another instance, constructed on another device with *)
(* the same RootSecret, base message and userId, returns exactly P.        *)
(***************************************************************************)
ReadsOtherDevice(c) ==
    ReadsOwnSave(c) /\ call[c].seen.by # SelfOf(c).device

C13_CrossDevice ==
    \A c \in CallIds :
        (Done(c, "Get") /\ ReadsOtherDevice(c) /\ Served(c))
            => call[c].result = Returned(call[c].seen.data)


(***************************************************************************)
(* C14  Storage unconfigured: when BLOB_READ_WRITE_TOKEN or BLOB_BASE_URL  *)
(* is not set, POST, GET and DELETE answer 503 whatever the Authorization  *)
(* header and the body are, without checking the token and without any     *)
(* blob operation.                                                         *)
(***************************************************************************)
C14_Unconfigured503 ==
    ~ (env.BLOB_READ_WRITE_TOKEN /\ env.BLOB_BASE_URL)
        => /\ lastReq.method # "none"
                => /\ lastReq.status = 503
                   /\ lastReq.trace = <<"config">>
                   /\ ~ lastReq.auth.ok
                   /\ lastReq.changed = {}
           /\ \A c \in CallIds :
                call[c].pc = "responded" => call[c].response.status = 503
           /\ blobs = [p \in Paths |-> NullStr]

\* A POST with a well-signed token in the time window, sent to a server
\* without BLOB_BASE_URL, was answered 503.
C14_Witness ==
    /\ env.BLOB_READ_WRITE_TOKEN /\ ~ env.BLOB_BASE_URL
    /\ lastReq.method = "POST"
    /\ WellSigned("POST", lastReq.secretName, lastReq.authorization)
    /\ WithinWindow(TokenFields(lastReq.authorization).timestamp, lastReq.now)
    /\ lastReq.status = 503


(***************************************************************************)
(* C15  Uniform unauthorized answer: whichever check of the token fails    *)
(* (header missing or undecodable, field missing, timestamp outside the    *)
(* window, public key malformed, signature mismatch), the answer is 401    *)
(* with one and the same body.                                             *)
(***************************************************************************)
UnauthorizedBody == ErrorBody("Invalid authorization header")

C15_UniformUnauthorized ==
    /\ (TokenChecked /\ ~ lastReq.auth.ok)
            => lastReq.status = 401 /\ lastReq.data = UnauthorizedBody
    /\ lastReq.status = 401 => lastReq.data = UnauthorizedBody
    /\ \A c \in CallIds :
            (call[c].pc = "responded" /\ call[c].response.status = 401)
                => call[c].response.data = UnauthorizedBody

\* A client's token outside the window and an outsider's token with a
\* wrong signature got the same answer.
C15_Witness ==
    \E c \in CallIds :
        /\ call[c].pc = "responded"
        /\ call[c].response.status = 401
        /\ ~ WithinWindow(TokenFields(call[c].request.authorization).timestamp,
                          call[c].response.at)
        /\ lastReq.status = 401
        /\ lastReq.auth.stage = "signature"
        /\ lastReq.data = call[c].response.data


(***************************************************************************)
(* C16  Deterministic signing identity: every token of a user, whenever    *)
(* and on whichever device it is made, carries the keyId and the public    *)
(* JWK that deriveAuthKey gives for the user's RootSecret and userId, so   *)
(* the server computes the same pubKeyDigest for each of them; another     *)
(* userId or another RootSecret gives another keyId and public key.        *)
(***************************************************************************)
\* The signing identity of (RootSecret, userId).
IdentityOf(root, userId) ==
    LET authKey == deriveAuthKey([prfOutput |-> root,
                                  baseMessage |-> cryptoBaseMessage,
                                  userId |-> userId, useCloudStorage |-> TRUE])
    IN  [kid |-> authKey.kid, pubJWK |-> authKey.pubJWK]

DigestOf(identity) ==
    pubKeyDigest(identity.kid, JSONParse(identity.pubJWK).v)

Identities == (RootSecrets \cup {OutsiderSecret}) \X UserIds

\* The identity and the digest of every (RootSecret, userId).
IdentityTable == [a \in Identities |-> IdentityOf(a[1], a[2])]
DigestTable == [a \in Identities |-> DigestOf(IdentityTable[a])]

\* Two different (RootSecret, userId) never share a keyId, a public key or a digest.
IdentitiesDistinct ==
    \A a \in Identities, b \in Identities :
        a # b => /\ IdentityTable[a].kid # IdentityTable[b].kid
                 /\ IdentityTable[a].pubJWK # IdentityTable[b].pubJWK
                 /\ DigestTable[a] # DigestTable[b]

RandomSalts == (1..(2 * (MaxOps + 1))) \cup {102}
UserIdSalts == {TextEncode(u) : u \in UserIds}

\* The key material that deriveAuthKey produces for (root, userId).
AuthMaterial(root, userId) ==
    LET self == [prfOutput |-> root, baseMessage |-> cryptoBaseMessage,
                 userId |-> userId, useCloudStorage |-> TRUE]
        hmac == HMAC(root, TextEncode(<<"auth-key-v1:">> \o userId))
    IN  {hmac, deriveAuthKey(self).priv, B64Decode(deriveAuthKey(self).kid).v}

\* The key that deriveEncryptionKey produces for (root, salt).
EncryptionMaterial(root, salt) ==
    deriveEncryptionKey([prfOutput |-> root, baseMessage |-> cryptoBaseMessage,
                         userId |-> EmptyStr, useCloudStorage |-> FALSE], salt)

DomainsSeparate ==
    \A root \in RootSecrets, u \in UserIds :
        /\ \A salt \in RandomSalts :
                EncryptionMaterial(root, salt) \notin AuthMaterial(root, u)
        /\ \A salt \in UserIdSalts :
                EncryptionMaterial(root, salt) \notin AuthMaterial(root, u)

SessionEntryClean(str) ==
    str # NullStr => /\ str.enc = "json"
                     /\ DOMAIN str.v = {"userId", "timestamp"}
                     /\ str.v.userId \in UserIds
                     /\ str.v.timestamp \in Nat

UserEntryClean(str) ==
    str # NullStr => /\ str.enc = "json"
                     /\ DOMAIN str.v = {"id", "name", "displayName"}
                     /\ str.v.id \in UserIds
                     /\ str.v.name \in Usernames
                     /\ str.v.displayName \in Usernames

CredentialEntryClean(str) ==
    str # NullStr => /\ DOMAIN str = {"credentialOf"}
                     /\ str.credentialOf \in UserIds

\* The instance that wrote the entry of a secret.
WriterOf(hist) ==
    [prfOutput |-> hist.prf, baseMessage |-> cryptoBaseMessage,
     userId |-> EmptyStr, useCloudStorage |-> FALSE]

SecretEntryClean(n) ==
    localStorage[LocalKey(n)] # NullStr
        => /\ localStorage[LocalKey(n)].enc = "json"
           /\ OnlyCiphertext(WriterOf(localHist[n]), localStorage[LocalKey(n)].v)

C18_RootSecretInMemory ==
    /\ SessionEntryClean(localStorage[<<"auth-session">>])
    /\ UserEntryClean(localStorage[<<"passkey-user">>])
    /\ CredentialEntryClean(localStorage[<<"passkey-credential-id">>])
    /\ localStorage[<<"encrypted-secret">>] = NullStr
    /\ \A n \in Names : SecretEntryClean(n)

\* The hook holds the PRF output of an authentication in memory, the
\* session is persisted and a Save with that PRF output wrote an entry.
C18_Witness ==
    /\ getPRFOutput(hook) \in RootSecrets
    /\ localStorage[<<"auth-session">>] # NullStr
    /\ localStorage[<<"passkey-user">>] # NullStr
    /\ \E n \in Names :
            /\ localStorage[LocalKey(n)] # NullStr
            /\ localHist[n].prf = getPRFOutput(hook)


(***************************************************************************)
(* C19  Opaque retrieval: an authorized GET for (userId U, secretName N)   *)
(* that the blob store answers is answered 200 with `data` equal,          *)
(* unmodified, to the `data` of the most recent POST the server stored for *)
(* (U, N) with no DELETE after it, and 404 when there is no such POST.     *)
(***************************************************************************)
\* The server answered the GET of call c, whose token it accepts, and the
\* answer is not the failure of the blob store.
AuthorizedGet(c) ==
    /\ call[c].request.method = "GET"
    /\ call[c].pc = "responded"
    /\ Configured(env)
    /\ Accepts("GET", call[c].name, call[c].request.authorization,
               call[c].response.at)
    /\ call[c].response.status # 500

C19_OpaqueRetrieval ==
    \A c \in InFlight :
        AuthorizedGet(c)
            => IF call[c].seen.posted # NullStr
               THEN /\ call[c].response.status = 200
                    /\ call[c].response.data = call[c].seen.posted
               ELSE call[c].response.status = 404

\* A GET is answered with the data of the second of two POSTs.
C19_Witness ==
    \E c \in InFlight :
        /\ AuthorizedGet(c)
        /\ call[c].seen.kind = "saved" /\ call[c].seen.over
        /\ call[c].response.status = 200
        /\ call[c].response.data = call[c].seen.posted
        /\ IsSecret(call[c].response.data)


(***************************************************************************)
(* C20  Key-derivation errors: a cloud call of an instance whose           *)
(* RootSecret is empty or undefined, or whose private scalar is not        *)
(* exactly 32 bytes, fails with a KeyDerivationError, and no token is      *)
(* produced and no request is sent.                                        *)
(***************************************************************************)
\* Call c ended in an instance whose signing key cannot be derived.
DerivationFailed(c) ==
    /\ call[c].pc = "done" /\ call[c].op # "none"
    /\ UsesCloud(SelfOf(c)) /\ AuthKeyFailure(SelfOf(c)) # "none"

\* The part of the statement about the token and the request.
NothingSent ==
    /\ \A c \in CallIds :
            DerivationFailed(c)
                => /\ call[c].result.kind \notin {"value", "void", "none"}
                   /\ call[c].request = NoRequest
                   /\ call[c].response = NoResponse
    /\ \A c \in InFlight : AuthKeyFailure(SelfOf(c)) = "none"

C20_KeyDerivationErrors ==
    /\ NothingSent
    /\ \A c \in CallIds :
            DerivationFailed(c) => call[c].result = Raised("KeyDerivationError")


(***************************************************************************)
(* C21  Request stage order: every request runs its checks in the order    *)
(* configuration, secretName, header decoded with all fields, timestamp    *)
(* in the window, signature verified; the stage that fails is the first    *)
(* one whose check fails and no later stage runs; a blob operation (head   *)
(* and put, fetch, del) runs only after the signature was verified; and    *)
(* the request ends with one response.                                     *)
(***************************************************************************)
\* The stages of a handler that runs to its end.
HandlerStages(method) ==
    <<"config", "name", "auth">>
        \o (CASE method = "POST" -> <<"body", "head", "put">>
               [] method = "GET" -> <<"fetch">>
               [] method = "DELETE" -> <<"del">>)

IsPrefix(s, t) == Len(s) <= Len(t) /\ \A k \in 1..Len(s) : s[k] = t[k]

\* The stage of parseAuthHeader at which a header value fails first, or
\* "none": each stage is looked at only when the ones before it pass.
FirstFailure(method, secretName, token, at) ==
    IF ~ Truthy(token) THEN "absent"
    ELSE IF ~ (token.enc = "b64" /\ token.v.enc = "utf8" /\ token.v.v.enc = "json")
    THEN "undecodable"
    ELSE IF TokenFields(token) = NullStr THEN "thrown"
    ELSE IF ~ HasAllFields(TokenFields(token)) THEN "field"
    ELSE IF ~ InTimeframe(TokenFields(token).timestamp, at) THEN "timeframe"
    ELSE IF ~ HasValidSignature(method, secretName, TokenFields(token))
    THEN "signature"
    ELSE "none"

C21_StageOrder ==
    lastReq.method # "none" =>
        /\ IsPrefix(lastReq.trace, HandlerStages(lastReq.method))
        /\ lastReq.status \in {200, 400, 401, 404, 500, 503}
        /\ ~ Configured(env) <=> lastReq.trace = <<"config">>
        /\ (Configured(env) /\ lastReq.secretName = EmptyStr)
                <=> lastReq.trace = <<"config", "name">>
        /\ Len(lastReq.trace) < 3 => lastReq.auth = NoAuth
        /\ Len(lastReq.trace) >= 3 =>
                \E stage \in {FirstFailure(lastReq.method, lastReq.secretName,
                                           lastReq.authorization, lastReq.now)} :
                    IF stage = "none"
                    THEN lastReq.auth.ok
                    ELSE /\ ~ lastReq.auth.ok
                         /\ lastReq.auth.stage = stage
                         /\ Len(lastReq.trace) = 3
        /\ ~ NoBlobOperation(lastReq.trace) => lastReq.auth.ok
        /\ lastReq.changed # {} =>
                /\ lastReq.auth.ok
                /\ lastReq.trace = HandlerStages(lastReq.method)

\* A token that is too old and whose signature is of another request is
\* turned away at the timestamp.
C21_Witness ==
    /\ lastReq.method # "none"
    /\ Len(lastReq.trace) = 3
    /\ ~ lastReq.auth.ok
    /\ lastReq.auth.stage = "timeframe"
    /\ ~ HasValidSignature(lastReq.method, lastReq.secretName,
                           TokenFields(lastReq.authorization))
    /\ lastReq.status = 401


RecordOf(u, n, hist, timestamp) ==
    EncryptSecret(UserSelf(u), n, hist.data, 2 * hist.id, 2 * hist.id + 1,
                  hist.id, timestamp)

\* Every stored blob is the whole record of one Save.
WholeRecords ==
    \A u \in UserIds, n \in Names :
        blobHist[BlobPath(u, n)].kind = "saved"
            => /\ blobs[BlobPath(u, n)].enc = "json"
               /\ blobs[BlobPath(u, n)].v.data
                     = RecordOf(u, n, blobHist[BlobPath(u, n)],
                                blobs[BlobPath(u, n)].v.data.timestamp)

\* Every Save that the server answered was stored.
BothComplete ==
    \A c \in CallIds :
        (call[c].op = "Save" /\ call[c].pc \in {"responded", "done"})
            => call[c].response.status = 200

C23_LastWriterWins ==
    /\ WholeRecords
    /\ BothComplete
    /\ \A c \in CallIds :
            (Done(c, "Get") /\ call[c].seen.kind = "saved")
                => call[c].result = Returned(call[c].seen.data)


(***************************************************************************)
(* C24  No partial state on a failed or abandoned Save: a Save writes      *)
(* nothing before its store call, so when it throws before the request,    *)
(* or the server answers its POST with a status other than 200, every      *)
(* blob and every localStorage entry is what it was, and the call          *)
(* throws.                                                                 *)
(***************************************************************************)
\* A Save that ended without storing.
SaveFailed(c) ==
    /\ call[c].op = "Save"
    /\ call[c].pc \in {"responded", "done"}
    /\ call[c].response.status # 200

\* A step in which a Save starts, throws before its request, or has its
\* POST answered with an error.
FailingSaveStep ==
    \E c \in CallIds :
        /\ call'[c] # call[c]
        /\ call'[c].op = "Save"
        /\ \/ call'[c].pc = "sent"
           \/ call'[c].pc = "done" /\ call[c].pc # "responded"
           \/ call'[c].pc = "responded" /\ call'[c].response.status # 200

\* A step in which a POST of anyone is answered with an error.
FailingPostStep ==
    /\ lastReq' # lastReq
    /\ lastReq'.method = "POST"
    /\ lastReq'.status # 200

C24_NoPartialState ==
    [][/\ (FailingSaveStep \/ FailingPostStep)
            => /\ blobs' = blobs
               /\ localStorage' = localStorage
               /\ blobHist' = blobHist
        /\ \A c \in CallIds :
              (SaveFailed(c)' /\ call'[c].pc = "done")
                  => call'[c].result.kind \notin {"void", "value", "none"}]_vars

\* A Save was answered 401 and a Save before it had stored a record
\* under the same name, which is still the stored one.
C24_Witness ==
    \E c \in CallIds :
        /\ SaveFailed(c)
        /\ call[c].response.status = 401
        /\ call[c].seen.kind = "saved"
        /\ call[c].seen.data # call[c].data
        /\ blobHist[BlobPath(SelfOf(c).userId, call[c].name)] = call[c].seen


(***************************************************************************)
(* C25  Tokens expire for good: the server clock never goes back; a token  *)
(* with timestamp t is accepted only at server times up to t + 150000,     *)
(* and a token that was rejected as too old at one time is rejected at     *)
(* every later time.                                                       *)
(***************************************************************************)
\* The requests on the wire: <<method, secretName, token>>.
RequestsSeen ==
    {<<call[c].request.method, RouteParam(call[c].request.segment),
       call[c].request.authorization>> : c \in InFlight}
    \cup (IF lastReq.method # "none"
          THEN {<<lastReq.method, lastReq.secretName, lastReq.authorization>>}
          ELSE {})

\* Server times from the last request on.
ServerTimes == {lastReq.now, now} \cup {now + step : step \in TickSteps}

\* The time is within the life of a token stamped t.
NotExpired(t, at) == t # NotANumber /\ at <= t + 150000

\* parseAuthHeader turns the token away for a timestamp before the window.
RejectedTooOld(method, secretName, token, at) ==
    /\ parseAuthHeader(method, secretName, token, at) = Rejected("timeframe")
    /\ Less(TokenFields(token).timestamp, at - 150000)

C25_TokensExpire ==
    /\ lastReq.now <= now
    /\ lastReq.auth.ok
            => NotExpired(TokenFields(lastReq.authorization).timestamp,
                          lastReq.now)
    /\ \A r \in RequestsSeen, at \in ServerTimes :
            Accepts(r[1], r[2], r[3], at)
                => NotExpired(TokenFields(r[3]).timestamp, at)
    /\ \A r \in RequestsSeen, at \in ServerTimes, later \in ServerTimes :
            (at <= later /\ RejectedTooOld(r[1], r[2], r[3], at))
                => ~ Accepts(r[1], r[2], r[3], later)


(***************************************************************************)
(* C26  Stateless verification: whether the server accepts a token         *)
(* depends on the method, the secret name, the token and the server time   *)
(* alone, and verifying changes no blob; a token presented again within    *)
(* its window for the same method and name is accepted again, whatever     *)
(* was requested and stored before.                                        *)
(***************************************************************************)
\* What the method, the name, the token and the time say by themselves.
Verifies(method, secretName, token, at) ==
    /\ WellSigned(method, secretName, token)
    /\ InTimeframe(TokenFields(token).timestamp, at)

C26_StatelessVerification ==
    /\ \A r \in RequestsSeen, at \in {lastReq.now, now} :
            Accepts(r[1], r[2], r[3], at) <=> Verifies(r[1], r[2], r[3], at)
    /\ TokenChecked
            => ( lastReq.auth.ok
                   <=> Verifies(lastReq.method, lastReq.secretName,
                                lastReq.authorization, lastReq.now) )
    /\ \A c \in InFlight :
            (call[c].pc = "responded" /\ Configured(env))
                => ( call[c].response.status # 401
                       <=> Verifies(call[c].request.method, call[c].name,
                                    call[c].request.authorization,
                                    call[c].response.at) )
    /\ (lastReq.method = "GET" \/ ~ lastReq.auth.ok) => lastReq.changed = {}

\* The token of a client's request was accepted for the client and, sent
\* again for the same method and name, for an outsider.
C26_Witness ==
    \E c \in InFlight :
        /\ call[c].pc = "responded"
        /\ call[c].response.status \in {200, 404}
        /\ lastReq.from = "outsider"
        /\ lastReq.authorization = call[c].request.authorization
        /\ lastReq.method = call[c].request.method
        /\ lastReq.secretName = call[c].name
        /\ lastReq.auth.ok


(***************************************************************************)
(* C27  POST without data: a POST whose JSON body has no data member       *)
(* writes no blob; the server, once configured and given a secret name,    *)
(* answers it 400 when the token is valid and 401 when it is not.          *)
(***************************************************************************)
C27_PostWithoutData ==
    (lastReq.method = "POST" /\ lastReq.from = "outsider")
        => /\ lastReq.changed = {}
           /\ TokenChecked
                => IF Verifies("POST", lastReq.secretName,
                               lastReq.authorization, lastReq.now)
                   THEN lastReq.status = 400
                   ELSE lastReq.status = 401


(***************************************************************************)
(* C28  Isolation between storage keys: a POST or DELETE that succeeds     *)
(* for (userId U, secretName N) leaves the blob of every other pair as it  *)
(* was, the paths of different pairs being different; a local Save or      *)
(* Delete of N leaves every localStorage entry but `N-enc` as it was.      *)
(***************************************************************************)
Pairs == UserIds \X Names

\* Different pairs have different paths, different names different keys.
KeysDistinct ==
    /\ \A a \in Pairs, b \in Pairs :
            a # b => BlobPath(a[1], a[2]) # BlobPath(b[1], b[2])
    /\ \A n \in Names, m \in Names : n # m => LocalKey(n) # LocalKey(m)
    /\ \A n \in Names : LocalKey(n) \notin HookKeys

\* Every blob but the one of the pair is after the step what it was.
OnlyBlobOf(userId, secretName) ==
    /\ \A a \in Pairs :
            a # <<userId, secretName>>
                => blobs'[BlobPath(a[1], a[2])] = blobs[BlobPath(a[1], a[2])]
    /\ \A p \in Paths :
            p \notin {BlobPath(a[1], a[2]) : a \in Pairs} => blobs'[p] = blobs[p]
    /\ localStorage' = localStorage

\* Every localStorage entry but the one of the name is what it was.
OnlyEntryOf(secretName) ==
    /\ \A k \in DOMAIN localStorage :
            k # LocalKey(secretName) => localStorage'[k] = localStorage[k]
    /\ blobs' = blobs

C28_Isolation ==
    [][/\ KeysDistinct
       /\ \A c \in CallIds :
            ( /\ call[c].pc = "sent" /\ call'[c].pc = "responded"
              /\ call[c].request.method \in {"POST", "DELETE"}
              /\ call'[c].response.status = 200 )
                => OnlyBlobOf(SelfOf(c).userId, call[c].name)
       /\ ( /\ lastReq' # lastReq
            /\ lastReq'.method \in {"POST", "DELETE"}
            /\ lastReq'.status = 200 )
                => OnlyBlobOf(lastReq'.auth.userId, lastReq'.secretName)
       /\ \A c \in CallIds :
            ( /\ call'[c] # call[c] /\ call'[c].pc = "done"
              /\ call'[c].op \in {"Save", "Delete"}
              /\ ~ UsesCloud(Instances[call'[c].inst]) )
                => OnlyEntryOf(call'[c].name)]_vars

\* A Save of user u1 stored its record under a name under which another
\* user has a blob, and both blobs are there.
C28_Witness ==
    \E c \in CallIds :
        /\ Done(c, "Save") /\ call[c].response.status = 200
        /\ blobHist[BlobPath(<<"u1">>, call[c].name)].kind = "saved"
        /\ blobHist[BlobPath(<<"u1">>, call[c].name)].id = call[c].id
        /\ blobs[BlobPath(<<"u2">>, call[c].name)] # NullStr


(***************************************************************************)
(* C29  One backend per instance: every call of an instance goes to the    *)
(* cloud API when useCloudStorage is true and userId is not empty, and to  *)
(* localStorage otherwise; a call in local mode sends no request, a call   *)
(* in cloud mode neither reads nor writes localStorage.                    *)
(***************************************************************************)
\* The options of the instance name the cloud.
CloudMode(self) == self.useCloudStorage /\ self.userId # EmptyStr

\* The step belongs to call c.
StepOf(c) == call'[c] # call[c]

\* A step of a call in cloud mode: a request was or is on the wire,
\* localStorage is as it was, and what a Get returns is what the
\* response gives.
CloudStep(c) ==
    /\ localStorage' = localStorage /\ localHist' = localHist
    /\ call'[c].pc = "sent" => call'[c].request.method # "none"
    /\ call'[c].pc = "done" => call'[c].response.status # 0
    /\ (call'[c].pc = "done" /\ call'[c].op = "Get"
            /\ call'[c].response.status = 404)
            => call'[c].result = Raised("SecretNotFoundError")

\* A step of a call in local mode: the call is over in one step, no
\* request was sent, the blobs are as they were, and a Get of a name
\* without an entry finds nothing.
LocalStep(c) ==
    /\ blobs' = blobs /\ blobHist' = blobHist /\ lastReq' = lastReq
    /\ call'[c].pc = "done"
    /\ call'[c].request = NoRequest /\ call'[c].response = NoResponse
    /\ (call'[c].op = "Get" /\ localStorage[LocalKey(call'[c].name)] = NullStr)
            => call'[c].result = Raised("SecretNotFoundError")

C29_OneBackend ==
    [][\A c \in CallIds :
            StepOf(c) => IF CloudMode(Instances[call'[c].inst])
                         THEN CloudStep(c)
                         ELSE LocalStep(c)]_vars

\* A Get in cloud mode found nothing although localStorage holds a record
\* of the name, saved by an instance with the same RootSecret that has the
\* flag or the user id but not both.
C29_Witness ==
    \E c \in CallIds :
        /\ Done(c, "Get") /\ CloudMode(SelfOf(c))
        /\ call[c].result = Raised("SecretNotFoundError")
        /\ localHist[call[c].name].kind = "saved"
        /\ localHist[call[c].name].prf = SelfOf(c).prfOutput
        /\ localStorage[LocalKey(call[c].name)] # NullStr


(***************************************************************************)
(* C30  Authenticated sessions hold a RootSecret: in every state of the    *)
(* hook reached by page load, registerPasskey, authenticatePasskey,        *)
(* signOut and clearPasskey, isAuthenticated implies that getPRFOutput()   *)
(* gives a PRF output, and a hook that is signed out gives none.           *)
(***************************************************************************)
C30_AuthenticatedHasRootSecret ==
    /\ hook.isAuthenticated => getPRFOutput(hook) \in RootSecrets
    /\ ~ hook.isAuthenticated => getPRFOutput(hook) = ""

=============================================================================
